---- MODULE Spec2Model ----
(***************************************************************************)
(* WebSense backend: the request handlers of WebsiteAnalysisController and *)
(* WebsiteAnalysisService as a state machine.  A request occupies a slot;  *)
(* every action is the synchronous code a handler runs between two awaits, *)
(* or one step of an external collaborator (the Lighthouse subprocess, the *)
(* fingerprinting engine, a remote HTTP peer, a timer).                    *)
(*                                                                         *)
(* Strings the code inspects (URLs) are sequences of one-character         *)
(* strings, so startsWith, concatenation and URL parsing are computed.     *)
(***************************************************************************)
EXTENDS Integers, Sequences, FiniteSets, TLC

VARIABLES now, files, env, req, reportData, analysis, results, clientUrl,
          responseHeaders, returned

vars ==
  <<now, files, env, req, reportData, analysis, results, clientUrl, responseHeaders,
    returned>>

\* what the reshaping routines work on: the parsed Lighthouse report, the
\* CrUX analysis, the fingerprinting results, the url a client sent, the
\* headers a site answered with, and the values the routines returned, one
\* entry per call
post == <<reportData, analysis, results, clientUrl, responseHeaders, returned>>

\* no value is being reshaped
Nothing == [kind |-> "none"]

(***************************************************************************)
(* Bounds.                                                                 *)
(***************************************************************************)
\* number of request slots (requests that can be in flight together)
MaxReq == 2
\* last millisecond Date.now() can return
MaxClock == 1

Req == 1..MaxReq
Clock == 0..MaxClock

(***************************************************************************)
(* Strings.                                                                *)
(***************************************************************************)
HTTP_PREFIX == <<"h", "t", "t", "p">>
HTTP_SCHEME == <<"h", "t", "t", "p", ":", "/", "/">>
HTTPS_SCHEME == <<"h", "t", "t", "p", "s", ":", "/", "/">>

\* the values JavaScript gives a url that is not a string
Undefined == <<"undefined">>
NotAString == <<"non-string">>

IsString(u) == u # Undefined /\ u # NotAString

\* String.prototype.startsWith
StartsWith(s, p) == Len(s) >= Len(p) /\ SubSeq(s, 1, Len(p)) = p

HOST == <<"a", ".", "i", "o">>

\* url strings a client sends
Urls ==
  { <<>>,
    HOST,
    HTTP_SCHEME \o HOST,
    HTTPS_SCHEME \o HOST \o <<"/", "p">>,
    HTTP_PREFIX \o HOST }

\* JSON bodies of a POST: absent, or an object whose url is anything
Bodies ==
  { [present |-> FALSE, url |-> Undefined] }
  \cup { [present |-> TRUE, url |-> u] : u \in Urls \cup {Undefined, NotAString} }

\* values of the :url path parameter (a non-empty string)
PathParams == Urls \ { <<>> }

\* "Validate URL" of the five service handlers
NormalizeUrl(url) ==
  IF ~StartsWith(url, HTTP_SCHEME) /\ ~StartsWith(url, HTTPS_SCHEME)
  THEN HTTPS_SCHEME \o url
  ELSE url

\* urlToTest of testWebsite
UrlToTest(url) ==
  IF StartsWith(url, HTTP_PREFIX) THEN url ELSE HTTPS_SCHEME \o url

HasScheme(u) == StartsWith(u, HTTP_SCHEME) \/ StartsWith(u, HTTPS_SCHEME)

SchemeOf(u) == IF StartsWith(u, HTTPS_SCHEME) THEN HTTPS_SCHEME ELSE HTTP_SCHEME

RECURSIVE TakeHost(_)
TakeHost(s) ==
  IF s = <<>> \/ Head(s) \in {"/", "?", "#"} THEN <<>>
  ELSE <<Head(s)>> \o TakeHost(Tail(s))

HostOf(u) == TakeHost(SubSeq(u, Len(SchemeOf(u)) + 1, Len(u)))

\* new URL(u) succeeds (on the strings of Urls: a scheme and a host)
UrlParses(u) == HasScheme(u) /\ HostOf(u) # <<>>

\* new URL(u).origin
OriginOf(u) == SchemeOf(u) \o HostOf(u)

\* https.get(u) does not throw: the URL parses and its protocol is https:
HttpsGetAccepts(u) == UrlParses(u) /\ StartsWith(u, HTTPS_SCHEME)

\* (isHttps ? https : http).get(u) does not throw
ClientGetAccepts(u) == UrlParses(u)

(***************************************************************************)
(* Environment configuration.                                              *)
(***************************************************************************)
NonDigit == 10
NaN == -1

\* environments the process is started in; a LIGHTHOUSE_TIMEOUT of <<>> is
\* unset (or empty)
EnvConfigs ==
  { [LIGHTHOUSE_TIMEOUT |-> <<>>, GOOGLE_API_KEY |-> TRUE],
    [LIGHTHOUSE_TIMEOUT |-> <<3, 0, 0, 0, 0>>, GOOGLE_API_KEY |-> TRUE],
    [LIGHTHOUSE_TIMEOUT |-> <<9, 0, NonDigit>>, GOOGLE_API_KEY |-> FALSE] }

RECURSIVE DigitsValue(_, _)
DigitsValue(s, acc) ==
  IF s = <<>> \/ Head(s) = NonDigit THEN acc
  ELSE DigitsValue(Tail(s), 10 * acc + Head(s))

\* parseInt(s, 10)
ParseInt(s) ==
  IF s = <<>> \/ Head(s) = NonDigit THEN NaN ELSE DigitsValue(s, 0)

\* configuration().lighthouse.timeout
ConfigLighthouseTimeout(e) ==
  ParseInt(IF e.LIGHTHOUSE_TIMEOUT = <<>> THEN <<6, 0, 0, 0, 0>> ELSE e.LIGHTHOUSE_TIMEOUT)

\* --timeout of the two audit commands (the primary one is a literal of the
\* command template; the environment is not consulted)
PrimaryTimeout(e) == 60000
FallbackTimeout == 30000

(***************************************************************************)
(* Report files and errors of the Lighthouse subprocess.                   *)
(***************************************************************************)
\* what the handler can observe of a report file's content
Report(json, object, runtimeError, chromeError, categories, audits, score) ==
  [json |-> json, object |-> object, runtimeError |-> runtimeError,
   chromeError |-> chromeError, categories |-> categories, audits |-> audits,
   score |-> score]

NoReport == Report(FALSE, FALSE, FALSE, FALSE, FALSE, FALSE, FALSE)
ValidReport == Report(TRUE, TRUE, FALSE, FALSE, TRUE, TRUE, TRUE)

\* reports the auditor leaves behind
ReportKinds ==
  { NoReport,                                                \* truncated, not JSON
    Report(TRUE, FALSE, FALSE, FALSE, FALSE, FALSE, FALSE),  \* null
    Report(TRUE, TRUE, TRUE, FALSE, TRUE, TRUE, FALSE),      \* runtimeError
    Report(TRUE, TRUE, TRUE, TRUE, FALSE, TRUE, FALSE),      \* several defects
    Report(TRUE, TRUE, FALSE, TRUE, TRUE, TRUE, TRUE),       \* Chrome error page
    Report(TRUE, TRUE, FALSE, FALSE, TRUE, TRUE, FALSE),     \* no scores
    Report(TRUE, TRUE, FALSE, FALSE, FALSE, TRUE, FALSE),    \* no categories
    ValidReport }

Absent == [exists |-> FALSE, report |-> NoReport]

\* an error; tokens are the words the handler looks for in its message
\* (timeout, ECONNREFUSED, ENOENT)
Error(text, tokens, from) == [text |-> text, tokens |-> tokens, from |-> from]
NoError == Error("", {}, "none")

\* how a child process can end: exit code 0, a non-zero exit or a kill
\* ("CommandFailed", with what it wrote on stderr), or a failure to spawn
ExecOutcomes ==
  { [kind |-> "exit0", stderr |-> {}] }
  \cup { [kind |-> "CommandFailed", stderr |-> s] : s \in {{}, {"ECONNREFUSED"}, {"ENOENT"}} }
  \cup { [kind |-> "SpawnError", stderr |-> s] : s \in {{}, {"ENOENT"}} }

NotRun == [kind |-> "none", stderr |-> {}]

\* the words of the command line itself: both templates carry --timeout=
CommandTokens == {"timeout"}

\* the Error execAsync rejects with: child_process.exec reports a failed
\* command as "Command failed: <command>\n<stderr>"
ExecError(out, from) ==
  IF out.kind = "CommandFailed"
  THEN Error("Command failed", CommandTokens \cup out.stderr, from)
  ELSE Error("spawn failed", out.stderr, from)

(***************************************************************************)
(* Response bodies.                                                        *)
(***************************************************************************)
NoResult == [kind |-> "none", url |-> <<>>, error |-> FALSE, success |-> "unset", msg |-> ""]

\* an exception left the handler (the promise it returned rejected)
Exception(text) ==
  [kind |-> "exception", url |-> <<>>, error |-> FALSE, success |-> "unset", msg |-> text]

\* { url, error: true, message } of runLighthouseAnalysis
LighthouseErrorBody(url, msg) ==
  [kind |-> "body", url |-> url, error |-> TRUE, success |-> "unset", msg |-> msg]

LighthouseResult(url) ==
  [kind |-> "body", url |-> url, error |-> FALSE, success |-> "unset", msg |-> ""]

\* { url, success: false, error: true, message, timestamp } of the other four
ServiceErrorBody(url, msg) ==
  [kind |-> "body", url |-> url, error |-> TRUE, success |-> "no", msg |-> msg]

ServiceResult(url) ==
  [kind |-> "body", url |-> url, error |-> FALSE, success |-> "yes", msg |-> ""]

\* { url, statusCode, accessible, message } of testWebsite
ProbeBody(url, msg) ==
  [kind |-> "body", url |-> url, error |-> FALSE, success |-> "unset", msg |-> msg]

(***************************************************************************)
(* Request slots.                                                          *)
(***************************************************************************)
Idle ==
  [route |-> "none", pc |-> "idle", input |-> <<>>, url |-> <<>>, ts |-> -1,
   proc |-> NotRun, execError |-> NoError, primaryRuns |-> 0, fallbackRuns |-> 0,
   primaryFailed |-> FALSE, created |-> FALSE, procWrote |-> FALSE, found |-> FALSE,
   parsed |-> FALSE, cmdTimeout |-> 0, collab |-> FALSE, collabUrl |-> <<>>,
   cruxCalls |-> 0, cruxQueries |-> <<>>, firstStatus |-> 0,
   originStatus |-> 0, engine |-> "none", timer |-> FALSE,
   sock |-> "none", quiet |-> FALSE, failed |-> FALSE, result |-> NoResult]

AllIdle == \A r \in Req : req[r].pc = "idle"

\* a new request takes the first free slot
FirstFree(r) == req[r].pc = "idle" /\ \A q \in 1..(r - 1) : req[q].pc # "idle"

\* the handler's promise settles: with a body, or with an exception
Finish(slot, result, failed) ==
  [slot EXCEPT !.pc = "done", !.result = result, !.failed = failed]

\* the controller reads data.url outside any try block: with no body the
\* TypeError leaves the route handler
ControllerTypeError == "Cannot read properties of undefined (reading 'url')"

ControllerThrow(slot) ==
  Finish([slot EXCEPT !.input = Undefined], Exception(ControllerTypeError), FALSE)

\* the server after bootstrap: no request, no report file
InitService ==
  /\ now = 0
  /\ files = [p \in Clock |-> Absent]
  /\ env \in EnvConfigs
  /\ req = [r \in Req |-> Idle]

Init ==
  /\ InitService
  /\ reportData = Nothing
  /\ analysis = Nothing
  /\ results = Nothing
  /\ clientUrl = Nothing
  /\ responseHeaders = Nothing
  /\ returned = <<>>

\* Date.now() moves on
Tick ==
  /\ now < MaxClock
  /\ now' = now + 1
  /\ UNCHANGED <<files, env, req, post>>

\* the response is serialized and the request's objects are discarded
Respond(r) ==
  /\ req[r].pc = "done"
  /\ req' = [req EXCEPT ![r] = Idle]
  /\ UNCHANGED <<now, files, env, post>>

(***************************************************************************)
(* POST lighthouse: analyzeLighthouse and runLighthouseAnalysis.           *)
(***************************************************************************)
\* a fallback tried for a refused connection only
ShouldTryFallbackRefusedOnly(tokens) == "ECONNREFUSED" \in tokens

\* "Try alternative command if first one fails"
ShouldTryFallback(tokens) == "timeout" \in tokens \/ "ECONNREFUSED" \in tokens

\* a fallback that is run again when it fails
LhNextRetryFallback(pc, event) ==
  CASE pc = "lh_primary" /\ event = "ok" -> "lh_report"
    [] pc = "lh_primary" /\ event = "retry" -> "lh_fallback"
    [] pc = "lh_primary" /\ event = "fail" -> "lh_catch"
    [] pc = "lh_fallback" /\ event = "ok" -> "lh_report"
    [] pc = "lh_fallback" /\ event = "fail" -> "lh_fallback"

\* the control flow of the two audit commands: where the handler goes after
\* the command of step pc ended with the given event
LhNext(pc, event) ==
  CASE pc = "lh_primary" /\ event = "ok" -> "lh_report"
    [] pc = "lh_primary" /\ event = "retry" -> "lh_fallback"
    [] pc = "lh_primary" /\ event = "fail" -> "lh_catch"
    [] pc = "lh_fallback" /\ event = "ok" -> "lh_report"
    [] pc = "lh_fallback" /\ event = "fail" -> "lh_catch"

\* the message of the outer catch block
LhCatchMessage(error) ==
  IF "ENOENT" \in error.tokens THEN "Lighthouse CLI not found. Please ensure lighthouse is installed."
  ELSE IF "timeout" \in error.tokens THEN "Analysis timed out. The website may be too slow or unresponsive."
  ELSE IF "ECONNREFUSED" \in error.tokens THEN "Cannot connect to the website. Please check the URL and try again."
  ELSE error.text

\* an outer catch block that throws the error again
LhCatchRethrow(slot, error, failed) ==
  Finish(slot, Exception(error.text), failed)

\* the outer catch block
LhCatch(slot, error, failed) ==
  Finish(slot, LighthouseErrorBody(slot.url, LhCatchMessage(error)), failed)

\* checks that look at the structure of the report before its screenshot
LhReportResultStructureFirst(url, c) ==
  IF c.runtimeError
  THEN LighthouseErrorBody(url, "runtimeError")
  ELSE IF ~c.categories \/ ~c.audits
  THEN LighthouseErrorBody(url, "Analysis completed but returned invalid data structure.")
  ELSE IF c.audits /\ c.chromeError
  THEN LighthouseErrorBody(url, "Website appears to be down or inaccessible.")
  ELSE IF ~c.score
  THEN LighthouseErrorBody(url, "Analysis completed but no valid scores were returned.")
  ELSE LighthouseResult(url)

\* the checks made on the parsed report, in the order of the code
LhReportResult(url, c) ==
  IF c.runtimeError
  THEN LighthouseErrorBody(url, "runtimeError")
  ELSE IF c.audits /\ c.chromeError
  THEN LighthouseErrorBody(url, "Website appears to be down or inaccessible.")
  ELSE IF ~c.categories \/ ~c.audits
  THEN LighthouseErrorBody(url, "Analysis completed but returned invalid data structure.")
  ELSE IF ~c.score
  THEN LighthouseErrorBody(url, "Analysis completed but no valid scores were returned.")
  ELSE LighthouseResult(url)

\* a report the auditor did not complete
Malformed(c) == ~(c.json /\ c.object /\ c.categories /\ c.audits)

\* "Read and parse the report", "Clean up report file" and the checks: the
\* slot and the files after them
LhReadReport(slot, fs) ==
  LET f == fs[slot.ts]
      c == f.report
  IN
  IF ~f.exists
  THEN [slot |-> LhCatch(slot, Error("ENOENT: no such file or directory", {"ENOENT"}, "read"), TRUE),
        files |-> fs]
  ELSE IF ~c.json
  THEN [slot |-> LhCatch([slot EXCEPT !.parsed = TRUE], Error("SyntaxError", {}, "parse"), TRUE),
        files |-> fs]
  ELSE IF ~c.object
  THEN [slot |-> LhCatch([slot EXCEPT !.parsed = TRUE], Error("TypeError", {}, "parse"), TRUE),
        files |-> fs]
  ELSE [slot |-> Finish([slot EXCEPT !.parsed = TRUE], LhReportResult(slot.url, c), Malformed(c)),
        files |-> [fs EXCEPT ![slot.ts] = Absent]]

\* runLighthouseAnalysis up to its first await
RunLighthouseStart(slot, url) ==
  IF ~IsString(url)
  THEN LhCatch([slot EXCEPT !.input = url, !.url = url], Error("TypeError", {}, "code"), FALSE)
  ELSE [slot EXCEPT !.pc = "lh_version", !.input = url, !.url = NormalizeUrl(url),
                    !.ts = now]

\* controller: analyzeLighthouse(data) returns this.service.runLighthouseAnalysis(data.url)
PostLighthouseFrom(r, bodies) ==
  /\ FirstFree(r)
  /\ \E data \in bodies :
       LET slot == [Idle EXCEPT !.route = "lighthouse"]
       IN req' = [req EXCEPT ![r] =
                    IF ~data.present
                    THEN ControllerThrow(slot)
                    ELSE RunLighthouseStart(slot, data.url)]
  /\ UNCHANGED <<now, files, env, post>>

PostLighthouse(r) == PostLighthouseFrom(r, Bodies)

\* await execAsync('npx lighthouse --version'): the outcome is only logged
LhVersionDone(r) ==
  /\ req[r].pc = "lh_version"
  /\ req' = [req EXCEPT ![r].pc = "lh_global_version"]
  /\ UNCHANGED <<now, files, env, post>>

\* await execAsync('lighthouse --version'), then the primary command is built
\* and started
LhGlobalVersionDone(r) ==
  /\ req[r].pc = "lh_global_version"
  /\ req' = [req EXCEPT ![r].pc = "lh_primary", ![r].proc = NotRun,
                        ![r].primaryRuns = @ + 1,
                        ![r].cmdTimeout = PrimaryTimeout(env),
                        ![r].collab = TRUE, ![r].collabUrl = req[r].url]
  /\ UNCHANGED <<now, files, env, post>>

\* the audit subprocess runs and ends; it may have written the report file
LighthouseProcessWith(r, reports) ==
  /\ req[r].pc \in {"lh_primary", "lh_fallback"}
  /\ req[r].proc = NotRun
  /\ \E out \in ExecOutcomes, wrote \in BOOLEAN, c \in reports :
       /\ ~wrote => c = NoReport
       /\ out.kind = "SpawnError" => ~wrote
       /\ files' = IF wrote
                   THEN [files EXCEPT ![req[r].ts] = [exists |-> TRUE, report |-> c]]
                   ELSE files
       /\ req' = [req EXCEPT ![r].proc = out, ![r].created = @ \/ wrote,
                             ![r].procWrote = wrote]
  /\ UNCHANGED <<now, env, post>>

LighthouseProcess(r) == LighthouseProcessWith(r, ReportKinds)

\* the primary command's promise settles
LhPrimaryDone(r) ==
  LET slot == req[r]
      created == files[slot.ts].exists
      ok == slot.proc.kind = "exit0" /\ created
      execError == IF slot.proc.kind = "exit0"
                   THEN Error("Lighthouse report file was not created", {}, "primary")
                   ELSE ExecError(slot.proc, "primary")
      event == IF ok THEN "ok"
               ELSE IF ShouldTryFallback(execError.tokens) THEN "retry" ELSE "fail"
      next == LhNext("lh_primary", event)
      thrown == IF "ENOENT" \in execError.tokens
                THEN Error("Lighthouse CLI not found. Please ensure lighthouse is installed: npm install -g lighthouse", {}, "primary")
                ELSE Error("Lighthouse execution failed", execError.tokens, "primary")
  IN
  /\ slot.pc = "lh_primary"
  /\ slot.proc # NotRun
  /\ IF next = "lh_report"
     THEN LET after == LhReadReport([slot EXCEPT !.found = TRUE], files)
          IN req' = [req EXCEPT ![r] = after.slot] /\ files' = after.files
     ELSE IF next = "lh_fallback"
     THEN /\ req' = [req EXCEPT ![r] = [slot EXCEPT !.pc = "lh_fallback", !.proc = NotRun,
                                                     !.procWrote = FALSE,
                                                     !.execError = execError,
                                                     !.primaryFailed = TRUE,
                                                     !.fallbackRuns = @ + 1]]
          /\ UNCHANGED files
     ELSE /\ req' = [req EXCEPT ![r] =
                       LhCatch([slot EXCEPT !.execError = execError, !.primaryFailed = TRUE],
                               thrown, TRUE)]
          /\ UNCHANGED files
  /\ UNCHANGED <<now, env, post>>

\* the error the fallback command ended with
AltError(out) ==
  IF out.kind = "exit0"
  THEN Error("Alternative command also failed to create report file", {}, "fallback")
  ELSE ExecError(out, "fallback")

\* a catch (altError) that throws the fallback's own error
FallbackThrownAlt(execError, altError) == altError

\* catch (altError): "throw execError; // Throw original error"
FallbackThrown(execError, altError) == execError

\* the fallback command's promise settles
LhFallbackDone(r) ==
  LET found == req[r].proc.kind = "exit0" /\ files[req[r].ts].exists
      slot == [req[r] EXCEPT !.found = found]
      ok == slot.proc.kind = "exit0" /\ found
      next == LhNext("lh_fallback", IF ok THEN "ok" ELSE "fail")
  IN
  /\ slot.pc = "lh_fallback"
  /\ slot.proc # NotRun
  /\ IF next = "lh_report"
     THEN LET after == LhReadReport(slot, files)
          IN req' = [req EXCEPT ![r] = after.slot] /\ files' = after.files
     ELSE IF next = "lh_fallback"
     THEN /\ req' = [req EXCEPT ![r].proc = NotRun, ![r].procWrote = FALSE,
                                ![r].fallbackRuns = @ + 1]
          /\ UNCHANGED files
     ELSE /\ req' = [req EXCEPT ![r] =
                       LhCatch(slot, FallbackThrown(slot.execError, AltError(slot.proc)), TRUE)]
          /\ UNCHANGED files
  /\ UNCHANGED <<now, env, post>>

LighthouseStep(r) ==
  \/ LhVersionDone(r)
  \/ LhGlobalVersionDone(r)
  \/ LhPrimaryDone(r)
  \/ LhFallbackDone(r)

(***************************************************************************)
(* POST tech-stack: analyzeTechStack.                                      *)
(***************************************************************************)
\* the catch block of analyzeTechStack, analyzeSecurityHeaders,
\* analyzeMobileFriendly and analyzeCoreWebVitals
ServiceCatch(slot, text, failed) ==
  Finish(slot, ServiceErrorBody(slot.url, text), failed)

\* controller line of the four routes: data.url is read before the service
\* is entered, and a url that is not a string makes startsWith throw inside
\* the service's try block
ServiceEntry(slot, data, started) ==
  IF ~data.present
  THEN ControllerThrow(slot)
  ELSE IF ~IsString(data.url)
  THEN ServiceCatch([slot EXCEPT !.input = data.url, !.url = data.url], "TypeError", FALSE)
  ELSE started

PostTechStack(r) ==
  /\ FirstFree(r)
  /\ \E data \in Bodies :
       LET slot == [Idle EXCEPT !.route = "tech-stack"]
       IN req' = [req EXCEPT ![r] =
                    ServiceEntry(slot, data,
                      [slot EXCEPT !.pc = "ts_init", !.input = data.url,
                                   !.url = NormalizeUrl(data.url),
                                   !.engine = "created"])]
  /\ UNCHANGED <<now, files, env, post>>

\* await wappalyzer.init(), then wappalyzer.open(url) is called
TsInitDone(r) ==
  /\ req[r].pc = "ts_init"
  /\ \E ok \in BOOLEAN :
       req' = [req EXCEPT ![r] =
                 IF ok
                 THEN [@ EXCEPT !.pc = "ts_open", !.engine = "initialized",
                                !.collab = TRUE, !.collabUrl = req[r].url]
                 ELSE ServiceCatch(@, "init failed", TRUE)]
  /\ UNCHANGED <<now, files, env, post>>

\* await wappalyzer.open(url), then page.analyze() is called
TsOpenDone(r) ==
  /\ req[r].pc = "ts_open"
  /\ \E ok \in BOOLEAN :
       req' = [req EXCEPT ![r] =
                 IF ok THEN [@ EXCEPT !.pc = "ts_analyze"]
                 ELSE ServiceCatch(@, "open failed", TRUE)]
  /\ UNCHANGED <<now, files, env, post>>

\* await page.analyze(), categorizeTechnologies(results), then
\* wappalyzer.destroy() is called
TsAnalyzeDone(r) ==
  /\ req[r].pc = "ts_analyze"
  /\ \E ok \in BOOLEAN, wellFormed \in BOOLEAN :
       req' = [req EXCEPT ![r] =
                 IF ~ok THEN ServiceCatch(@, "analyze failed", TRUE)
                 ELSE IF ~wellFormed THEN ServiceCatch(@, "TypeError", TRUE)
                 ELSE [@ EXCEPT !.pc = "ts_destroy"]]
  /\ UNCHANGED <<now, files, env, post>>

\* await wappalyzer.destroy(), then the result is returned
TsDestroyDone(r) ==
  /\ req[r].pc = "ts_destroy"
  /\ \E ok \in BOOLEAN :
       req' = [req EXCEPT ![r] =
                 IF ok
                 THEN Finish([@ EXCEPT !.engine = "destroyed"], ServiceResult(@.url), FALSE)
                 ELSE ServiceCatch(@, "destroy failed", TRUE)]
  /\ UNCHANGED <<now, files, env, post>>

TechStackStep(r) ==
  \/ TsInitDone(r)
  \/ TsOpenDone(r)
  \/ TsAnalyzeDone(r)
  \/ TsDestroyDone(r)

(***************************************************************************)
(* POST security-headers and POST mobile-friendly: analyzeSecurityHeaders, *)
(* getSecurityHeaders, analyzeMobileFriendly, getPageData.                 *)
(***************************************************************************)
\* getSecurityHeaders / getPageData up to the return of the promise: the
\* 10 s timer is armed, then client.get(url) either throws or opens a request
HttpStart(slot, url, waitPc, thrownText) ==
  LET s1 == [slot EXCEPT !.input = url, !.url = NormalizeUrl(url),
                         !.timer = TRUE, !.collab = TRUE,
                         !.collabUrl = NormalizeUrl(url)]
  IN IF ClientGetAccepts(s1.url)
     THEN [s1 EXCEPT !.pc = waitPc, !.sock = "open"]
     ELSE ServiceCatch(s1, thrownText, TRUE)

PostSecurityHeaders(r) ==
  /\ FirstFree(r)
  /\ \E data \in Bodies :
       LET slot == [Idle EXCEPT !.route = "security-headers"]
       IN req' = [req EXCEPT ![r] =
                    ServiceEntry(slot, data,
                      HttpStart(slot, data.url, "sh_wait", "Invalid URL"))]
  /\ UNCHANGED <<now, files, env, post>>

\* the response callback: clearTimeout, analyzeSecurityHeadersData, resolve
ShResponse(r) ==
  /\ req[r].pc = "sh_wait"
  /\ req' = [req EXCEPT ![r] =
               Finish([@ EXCEPT !.timer = FALSE], ServiceResult(@.url), FALSE)]
  /\ UNCHANGED <<now, files, env, post>>

\* req.on('error'): clearTimeout, reject(error)
HttpError(r, waitPc, text) ==
  /\ req[r].pc = waitPc
  /\ req' = [req EXCEPT ![r] =
               ServiceCatch([@ EXCEPT !.timer = FALSE, !.sock = "closed"], text, TRUE)]
  /\ UNCHANGED <<now, files, env, post>>

\* req.setTimeout(10000): req.destroy(), reject
HttpSocketTimeout(r, waitPcs, text) ==
  /\ req[r].pc \in waitPcs
  /\ req' = [req EXCEPT ![r] = ServiceCatch([@ EXCEPT !.sock = "destroyed"], text, TRUE)]
  /\ UNCHANGED <<now, files, env, post>>

\* the setTimeout callback: reject
HttpTimer(r, waitPc, text) ==
  /\ req[r].pc = waitPc
  /\ req[r].timer
  /\ req' = [req EXCEPT ![r] = ServiceCatch([@ EXCEPT !.timer = FALSE], text, TRUE)]
  /\ UNCHANGED <<now, files, env, post>>

ShError(r) == HttpError(r, "sh_wait", "request error")
ShSocketTimeout(r) == HttpSocketTimeout(r, {"sh_wait"}, "Request timeout")
ShTimer(r) == HttpTimer(r, "sh_wait", "Request timeout after 10 seconds")

SecurityHeadersStep(r) ==
  \/ ShResponse(r)
  \/ ShError(r)
  \/ ShSocketTimeout(r)
  \/ ShTimer(r)

PostMobileFriendly(r) ==
  /\ FirstFree(r)
  /\ \E data \in Bodies :
       LET slot == [Idle EXCEPT !.route = "mobile-friendly"]
       IN req' = [req EXCEPT ![r] =
                    ServiceEntry(slot, data,
                      HttpStart(slot, data.url, "mf_wait", "Unable to analyze page content"))]
  /\ UNCHANGED <<now, files, env, post>>

\* the response callback of getPageData: clearTimeout, then the body is read
MfResponse(r) ==
  /\ req[r].pc = "mf_wait"
  /\ req' = [req EXCEPT ![r].pc = "mf_body", ![r].timer = FALSE]
  /\ UNCHANGED <<now, files, env, post>>

\* the body is being read and for a while no chunk arrives: the socket's
\* 10 s of inactivity have begun and end with the socket timeout, unless a
\* chunk or the end of the body comes first
MfQuiet(r) ==
  /\ req[r].pc = "mf_body"
  /\ ~req[r].quiet
  /\ req' = [req EXCEPT ![r].quiet = TRUE]
  /\ UNCHANGED <<now, files, env, post>>

\* res.on('data') after a pause: data += chunk; the activity on the socket
\* starts its 10 s of inactivity anew (the 10 s timer of getPageData was
\* cleared by the response callback)
MfData(r) ==
  /\ req[r].pc = "mf_body"
  /\ req[r].quiet
  /\ req' = [req EXCEPT ![r].quiet = FALSE]
  /\ UNCHANGED <<now, files, env, post>>

\* res.on('end'): resolve, then the heuristics of analyzeMobileFriendlyWithoutApi
MfEnd(r) ==
  /\ req[r].pc = "mf_body"
  /\ req' = [req EXCEPT ![r] = Finish([@ EXCEPT !.sock = "closed"], ServiceResult(@.url), FALSE)]
  /\ UNCHANGED <<now, files, env, post>>

MfError(r) == HttpError(r, "mf_wait", "Unable to analyze page content")
\* while the body is read the socket timeout needs 10 s without a chunk
MfSocketTimeout(r) ==
  /\ req[r].pc = "mf_body" => req[r].quiet
  /\ HttpSocketTimeout(r, {"mf_wait", "mf_body"}, "Unable to analyze page content")
MfTimer(r) == HttpTimer(r, "mf_wait", "Unable to analyze page content")

MobileFriendlyStep(r) ==
  \/ MfResponse(r)
  \/ MfQuiet(r)
  \/ MfData(r)
  \/ MfEnd(r)
  \/ MfError(r)
  \/ MfSocketTimeout(r)
  \/ MfTimer(r)

(***************************************************************************)
(* POST core-web-vitals: analyzeCoreWebVitals, runCoreWebVitalsAnalysis.   *)
(***************************************************************************)
\* what a CrUX query can end with: 0 is a network error (fetch rejects)
CruxStatuses == {0, 200, 400, 404, 500}

\* an origin query after any failed first query
ShouldQueryOriginOnAnyFailure(status) == status # 200

\* catch (e) of the first query: "If 404, fall back to origin"
ShouldQueryOrigin(status) == status = 404

\* the body of a CrUX query: { url: ... } asks for a page, { origin: ... }
\* for a whole origin
CruxQuery(key, value) == [key |-> key, value |-> value]

\* analyzeCoreWebVitals up to the first await
CoreWebVitalsStart(slot, url, e) ==
  LET s1 == [slot EXCEPT !.input = url, !.url = NormalizeUrl(url)]
  IN IF ~UrlParses(s1.url) THEN ServiceCatch(s1, "Invalid URL", FALSE)
     ELSE IF ~e.GOOGLE_API_KEY THEN ServiceCatch(s1, "GOOGLE_API_KEY is not set.", FALSE)
     ELSE [s1 EXCEPT !.pc = "cwv_first", !.collab = TRUE,
                     !.collabUrl = OriginOf(s1.url), !.cruxCalls = 1,
                     !.cruxQueries = <<CruxQuery("url", OriginOf(s1.url))>>]

PostCoreWebVitals(r) ==
  /\ FirstFree(r)
  /\ \E data \in Bodies :
       LET slot == [Idle EXCEPT !.route = "core-web-vitals"]
       IN req' = [req EXCEPT ![r] =
                    ServiceEntry(slot, data, CoreWebVitalsStart(slot, data.url, env))]
  /\ UNCHANGED <<now, files, env, post>>

\* a 200 answer: res.json() and the reshaping either throw or give the result
CruxAnswer(slot, jsonOk) ==
  IF jsonOk THEN Finish(slot, ServiceResult(slot.url), FALSE)
  ELSE ServiceCatch(slot, "SyntaxError", TRUE)

\* a failed query taken for an answer without data
CruxFailureIgnored(slot) == Finish(slot, ServiceResult(slot.url), TRUE)

\* cruxFetch throws when fetch rejects or the answer is not ok; unless the
\* origin query follows, the error reaches the catch block of
\* analyzeCoreWebVitals
CruxFailure(slot) == ServiceCatch(slot, "CrUX API request failed", TRUE)

\* the first cruxFetch settles
CwvFirstDone(r) ==
  /\ req[r].pc = "cwv_first"
  /\ \E status \in CruxStatuses, jsonOk \in BOOLEAN :
       /\ status # 200 => jsonOk
       /\ req' = [req EXCEPT ![r] =
                    LET s1 == [@ EXCEPT !.firstStatus = status]
                    IN IF status = 200 THEN CruxAnswer(s1, jsonOk)
                       ELSE IF ShouldQueryOrigin(status)
                       THEN [s1 EXCEPT !.pc = "cwv_origin", !.cruxCalls = @ + 1,
                                       !.cruxQueries =
                                         Append(@, CruxQuery("origin", s1.collabUrl))]
                       ELSE CruxFailure(s1)]
  /\ UNCHANGED <<now, files, env, post>>

\* the cruxFetch for the origin settles
CwvOriginDone(r) ==
  /\ req[r].pc = "cwv_origin"
  /\ \E status \in CruxStatuses, jsonOk \in BOOLEAN :
       /\ status # 200 => jsonOk
       /\ req' = [req EXCEPT ![r] =
                    LET s1 == [@ EXCEPT !.originStatus = status]
                    IN IF status = 200 THEN CruxAnswer(s1, jsonOk)
                       ELSE CruxFailure(s1)]
  /\ UNCHANGED <<now, files, env, post>>

CoreWebVitalsStep(r) ==
  \/ CwvFirstDone(r)
  \/ CwvOriginDone(r)

(***************************************************************************)
(* GET test-website/:url: testWebsite.                                     *)
(***************************************************************************)
\* the outcome of a throw inside the executor of the returned promise: the
\* promise rejects, and `return new Promise(...)` hands the rejection on
ExecutorThrow(slot, text) == Finish(slot, Exception(text), TRUE)

GetTestWebsite(r) ==
  /\ FirstFree(r)
  /\ \E url \in PathParams :
       LET s1 == [Idle EXCEPT !.route = "test-website", !.input = url,
                              !.url = UrlToTest(url), !.collab = TRUE,
                              !.collabUrl = UrlToTest(url)]
       IN req' = [req EXCEPT ![r] =
                    IF HttpsGetAccepts(s1.url)
                    THEN [s1 EXCEPT !.pc = "tw_wait", !.sock = "open"]
                    ELSE ExecutorThrow(s1, "Invalid URL")]
  /\ UNCHANGED <<now, files, env, post>>

\* the response callback
TwResponse(r) ==
  /\ req[r].pc = "tw_wait"
  /\ req' = [req EXCEPT ![r] =
               Finish(@, ProbeBody(@.url, "Website responded with status code"), FALSE)]
  /\ UNCHANGED <<now, files, env, post>>

\* req.on('error')
TwError(r) ==
  /\ req[r].pc = "tw_wait"
  /\ req' = [req EXCEPT ![r] =
               Finish([@ EXCEPT !.sock = "closed"],
                      ProbeBody(@.url, "Website is not accessible"), TRUE)]
  /\ UNCHANGED <<now, files, env, post>>

\* req.setTimeout(10000): req.destroy(), resolve
TwTimeout(r) ==
  /\ req[r].pc = "tw_wait"
  /\ req' = [req EXCEPT ![r] =
               Finish([@ EXCEPT !.sock = "destroyed"],
                      ProbeBody(@.url, "Website connection timed out after 10 seconds"), TRUE)]
  /\ UNCHANGED <<now, files, env, post>>

TestWebsiteStep(r) ==
  \/ TwResponse(r)
  \/ TwError(r)
  \/ TwTimeout(r)

(***************************************************************************)
(* Lighthouse report post-processing: extractScreenshots.                  *)
(***************************************************************************)
\* most frames in reportData.screenshots and in reportData.filmstrip
MaxFrames == 2
\* most post-processing runs on one report
MaxRuns == 2

\* Date.now() in milliseconds: the wall clock when the server started
\* (20000 here) lies beyond the frame timestamps of the reports considered
DateNow == 20000 + now

\* a frame with base64 data and a timestamp in milliseconds, where 0 also
\* stands for a frame without a timestamp (both are falsy), and a frame whose
\* data is absent, not a string or empty
Frames ==
  [data : {TRUE}, timestamp : {0, 40, 60, 1000}] \cup {[data |-> FALSE, timestamp |-> 0]}

FrameLists == UNION { [1..n -> Frames] : n \in 0..MaxFrames }

getLoadingPhase(timestamp) ==
  IF timestamp < 1000 THEN "initial"
  ELSE IF timestamp < 3000 THEN "early"
  ELSE IF timestamp < 8000 THEN "loading"
  ELSE IF timestamp < 15000 THEN "late"
  ELSE "complete"

\* the forEach over reportData.screenshots or reportData.filmstrip: the
\* entries pushed, in index order
RECURSIVE PushFrames(_, _, _)
PushFrames(list, name, index) ==
  IF index >= Len(list) THEN <<>>
  ELSE LET frame == list[index + 1]
           timestamp == IF frame.timestamp # 0 THEN frame.timestamp ELSE index * 1000
       IN (IF frame.data
           THEN << [id |-> <<name, index>>, timestamp |-> timestamp,
                    phase |-> getLoadingPhase(timestamp)] >>
           ELSE <<>>)
          \o PushFrames(list, name, index + 1)

\* screenshots.sort((a, b) => a.timestamp - b.timestamp): a stable sort, the
\* last entry put behind the entries that are not later than it
RECURSIVE SortByTimestamp(_)
SortByTimestamp(s) ==
  IF s = <<>> THEN <<>>
  ELSE LET sorted == SortByTimestamp(SubSeq(s, 1, Len(s) - 1))
           x == s[Len(s)]
           k == Cardinality({i \in 1..Len(sorted) : sorted[i].timestamp <= x.timestamp})
       IN SubSeq(sorted, 1, k) \o <<x>> \o SubSeq(sorted, k + 1, Len(sorted))

\* a key that tells apart any two timestamps
ScreenshotKeyExact(timestamp) == timestamp

\* Math.round(screenshot.timestamp / 100)
ScreenshotKey(timestamp) == (timestamp + 50) \div 100

\* the filter of removeDuplicateScreenshots with its set of keys seen
RECURSIVE removeDuplicateScreenshots(_, _)
removeDuplicateScreenshots(screenshots, seen) ==
  IF screenshots = <<>> THEN <<>>
  ELSE LET key == ScreenshotKey(Head(screenshots).timestamp)
       IN IF key \in seen
          THEN removeDuplicateScreenshots(Tail(screenshots), seen)
          ELSE <<Head(screenshots)>>
               \o removeDuplicateScreenshots(Tail(screenshots), seen \cup {key})

\* the phase of a single screenshot, from the metrics the report carries
determinePhaseFromMetrics(metrics) ==
  IF metrics.timeToInteractive /\ metrics.largestContentfulPaint THEN "complete"
  ELSE IF metrics.largestContentfulPaint THEN "late"
  ELSE IF metrics.firstContentfulPaint THEN "loading"
  ELSE "initial"

\* extractScreenshots(reportData) called at time t
extractScreenshots(rd, t) ==
  LET pushed == PushFrames(rd.screenshots, "screenshots", 0)
                \o PushFrames(rd.filmstrip, "filmstrip", 0)
                \o (IF rd.flags.audits /\ rd.finalScreenshot
                    THEN << [id |-> <<"final">>, timestamp |-> t, phase |-> "complete"] >>
                    ELSE <<>>)
      uniqueScreenshots == removeDuplicateScreenshots(SortByTimestamp(pushed), {})
  IN IF Len(uniqueScreenshots) = 1
     THEN << [uniqueScreenshots[1] EXCEPT !.phase = determinePhaseFromMetrics(rd.metrics)] >>
     ELSE uniqueScreenshots

(***************************************************************************)
(* Lighthouse report post-processing: extractPerformanceSuggestions and    *)
(* the result object.                                                      *)
(***************************************************************************)
\* most audits of a report whose score differs from the others'
MaxPicked == 2

opportunityAudits ==
  << "unused-css-rules", "unused-javascript", "modern-image-formats",
     "offscreen-images", "render-blocking-resources", "unminified-css",
     "unminified-javascript", "efficient-animated-content", "duplicate-id-used",
     "total-byte-weight", "uses-optimized-images", "uses-text-compression",
     "uses-responsive-images", "efficient-animated-content", "preload-lcp-image" >>

diagnosticAudits ==
  << "dom-size", "critical-request-chains", "server-response-time", "redirects",
     "uses-long-cache-ttl", "uses-http2", "uses-passive-event-listeners" >>

AuditKeys ==
  {opportunityAudits[i] : i \in 1..Len(opportunityAudits)}
  \cup {diagnosticAudits[i] : i \in 1..Len(diagnosticAudits)}

\* an audit's score in hundredths; an audit the report lacks, a null score
NoAudit == -2
NullScore == -1

\* the loop over a list of audit keys: audit && audit.score !== null &&
\* audit.score < below
RECURSIVE PushAudits(_, _, _)
PushAudits(keys, scores, below) ==
  IF keys = <<>> THEN <<>>
  ELSE LET score == scores[Head(keys)]
       IN (IF score # NoAudit /\ score # NullScore /\ score < below
           THEN << [title |-> Head(keys), score |-> score] >>
           ELSE <<>>)
          \o PushAudits(Tail(keys), scores, below)

extractPerformanceSuggestions(rd) ==
  LET suggestions == PushAudits(opportunityAudits, rd.auditScores, 100)
                     \o PushAudits(diagnosticAudits, rd.auditScores, 90)
  IN SubSeq(suggestions, 1, IF Len(suggestions) < 10 THEN Len(suggestions) ELSE 10)

\* what runLighthouseAnalysis makes of the parsed report at time t: the
\* checks, then the result object with its lists
ProcessReport(url, rd, t) ==
  LET body == LhReportResult(url, rd.flags)
  IN IF body.error
     THEN [body |-> body, suggestions |-> <<>>, screenshots |-> <<>>]
     ELSE [body |-> body,
           suggestions |-> extractPerformanceSuggestions(rd),
           screenshots |-> extractScreenshots(rd, t)]

\* sets of at most n audit keys
RECURSIVE PickedSets(_)
PickedSets(n) ==
  IF n = 0 THEN {{}}
  ELSE LET P == PickedSets(n - 1)
       IN P \cup { S \cup {k} : S \in P, k \in AuditKeys }

\* a report that passes the checks and has a final screenshot only
BaseReport ==
  [flags |-> ValidReport, screenshots |-> <<>>, filmstrip |-> <<>>,
   finalScreenshot |-> TRUE,
   metrics |-> [firstContentfulPaint |-> FALSE, largestContentfulPaint |-> FALSE,
                timeToInteractive |-> FALSE],
   auditScores |-> [k \in AuditKeys |-> NoAudit]]

\* reports that differ in their frames (a filmstrip of at most one frame),
\* and in the metrics getPerformanceMetricsForTimeline finds in the audits:
\* none or all
ScreenshotReports ==
  { [BaseReport EXCEPT !.screenshots = s, !.filmstrip = f, !.finalScreenshot = fin,
                       !.metrics = [firstContentfulPaint |-> m, largestContentfulPaint |-> m,
                                    timeToInteractive |-> m]] :
      s \in FrameLists, f \in { l \in FrameLists : Len(l) <= 1 },
      fin \in BOOLEAN, m \in BOOLEAN }

\* reports that differ in their audit scores
SuggestionReports ==
  { [BaseReport EXCEPT !.auditScores = [k \in AuditKeys |-> IF k \in S THEN a ELSE b]] :
      S \in PickedSets(MaxPicked),
      a \in {NoAudit, NullScore, 50, 95, 100}, b \in {NoAudit, NullScore, 50, 95, 100} }

\* reports that differ in what the checks look at; a Chrome error marker is
\* in the final screenshot's data, a category score is in categories
CheckedReports ==
  { [BaseReport EXCEPT !.flags = c] :
      c \in { k \in [json : {TRUE}, object : {TRUE}, runtimeError : BOOLEAN,
                     chromeError : BOOLEAN, categories : BOOLEAN, audits : BOOLEAN,
                     score : BOOLEAN] :
                (k.chromeError => k.audits) /\ (k.score => k.categories) } }

\* a parsed report is at hand
InitReport ==
  /\ InitService
  /\ env.LIGHTHOUSE_TIMEOUT = <<>>
  /\ reportData \in ScreenshotReports \cup SuggestionReports \cup CheckedReports
  /\ analysis = Nothing
  /\ results = Nothing
  /\ clientUrl = Nothing
  /\ responseHeaders = Nothing
  /\ returned = <<>>

\* the post-processing of runLighthouseAnalysis runs on the report
PostProcess ==
  /\ Len(returned) < MaxRuns
  /\ returned' = Append(returned, ProcessReport(NormalizeUrl(HOST), reportData, DateNow))
  /\ UNCHANGED <<now, files, env, req, reportData, analysis, results, clientUrl,
                 responseHeaders>>

SpecReport == InitReport /\ [][Tick \/ PostProcess]_vars

(***************************************************************************)
(* Core Web Vitals summary: calculateCoreWebVitalsSummary.                 *)
(***************************************************************************)
\* largest density (in tenths) of the good bucket and of the other two
\* buckets of a metric's histogram
MaxShare == 1

\* formFactors.<name> = null
Null == [data |-> FALSE]

\* what parseMetrics returns for one form factor: for every metric the
\* density of the good bucket and total = good + needsImprovement + poor
FormFactorData ==
  LET MetricData == { [good |-> g, total |-> g + rest] :
                        g \in 0..MaxShare, rest \in 0..MaxShare }
  IN [data : {TRUE}, lcp : MetricData, cls : MetricData, inp : MetricData, fid : MetricData]

\* the primary form factor ranges over all data, the others over two values:
\* no data, and every metric all good
AnalysisInputs ==
  LET allGood == [good |-> 1, total |-> 1]
      few == {Null, [data |-> TRUE, lcp |-> allGood, cls |-> allGood, inp |-> allGood,
                     fid |-> allGood]}
      all == FormFactorData \cup {Null}
  IN { [formFactors |-> [mobile |-> m, desktop |-> d, tablet |-> t]] :
         m \in all, d \in few, t \in few }
     \cup { [formFactors |-> [mobile |-> m, desktop |-> d, tablet |-> t]] :
              m \in few, d \in all, t \in few }

\* a summary that adds the FID score to the INP score
CountedMetricsBoth(primary) ==
  (IF primary.lcp.total > 0 THEN <<"lcp">> ELSE <<>>)
  \o (IF primary.cls.total > 0 THEN <<"cls">> ELSE <<>>)
  \o (IF primary.inp.total > 0 THEN <<"inp">> ELSE <<>>)
  \o (IF primary.fid.total > 0 THEN <<"fid">> ELSE <<>>)

\* the metrics whose score is added to totalScore, in the order of the code
CountedMetrics(primary) ==
  (IF primary.lcp.total > 0 THEN <<"lcp">> ELSE <<>>)
  \o (IF primary.cls.total > 0 THEN <<"cls">> ELSE <<>>)
  \o (IF primary.inp.total > 0 THEN <<"inp">>
      ELSE IF primary.fid.total > 0 THEN <<"fid">> ELSE <<>>)

\* totalScore as a fraction: the sum of (good / total) * 100 over the metrics
RECURSIVE TotalScore(_, _)
TotalScore(primary, names) ==
  IF names = <<>> THEN [num |-> 0, den |-> 1]
  ELSE LET rest == TotalScore(primary, Tail(names))
           m == primary[Head(names)]
       IN [num |-> rest.num * m.total + 100 * m.good * rest.den,
           den |-> rest.den * m.total]

\* Math.round(totalScore / metricCount)
RoundedMean(total, metricCount) ==
  (2 * total.num + total.den * metricCount) \div (2 * total.den * metricCount)

\* primaryMetrics = analysis.formFactors.mobile || analysis.formFactors.desktop
calculateCoreWebVitalsSummary(a) ==
  LET primary == IF a.formFactors.mobile.data THEN a.formFactors.mobile
                 ELSE a.formFactors.desktop
  IN IF ~primary.data
     THEN [overallScore |-> 0, status |-> "No data available"]
     ELSE LET names == CountedMetrics(primary)
              overallScore == IF Len(names) > 0
                              THEN RoundedMean(TotalScore(primary, names), Len(names))
                              ELSE 0
          IN [overallScore |-> overallScore,
              status |-> IF overallScore >= 90 THEN "Excellent"
                         ELSE IF overallScore >= 75 THEN "Good"
                         ELSE IF overallScore >= 50 THEN "Needs Improvement"
                         ELSE "Poor"]

\* a CrUX record has been parsed into analysis.formFactors
InitSummary ==
  /\ InitService
  /\ env.LIGHTHOUSE_TIMEOUT = <<>>
  /\ reportData = Nothing
  /\ analysis \in AnalysisInputs
  /\ results = Nothing
  /\ clientUrl = Nothing
  /\ responseHeaders = Nothing
  /\ returned = <<>>

\* analysis.summary = this.calculateCoreWebVitalsSummary(analysis)
Summarize ==
  /\ returned = <<>>
  /\ returned' = <<calculateCoreWebVitalsSummary(analysis)>>
  /\ UNCHANGED <<now, files, env, req, reportData, analysis, results, clientUrl,
                 responseHeaders>>

SpecSummary == InitSummary /\ [][Summarize]_vars

(***************************************************************************)

(***************************************************************************)
(* POST lighthouse: the command line and what the shell makes of it.       *)
(***************************************************************************)
\* longest url a client sends here
MaxUrlLen == 3

\* command of runLighthouseAnalysis: npx lighthouse ${quotedUrl}
\* --output=json --output-path=${quotedReportPath} --chrome-flags=... ,
\* where quotedUrl is the url between two double quotes and reportPath is
\* <cwd>/reports/lighthouse-report-<timestamp>.json (a working directory
\* /app, so that the replace of double quotes in the path changes nothing)
LighthouseCommand(u, timestamp) ==
  LET quote == <<"\"">>
      reportPath ==
        <<"/", "a", "p", "p", "/", "r", "e", "p", "o", "r", "t", "s", "/",
          "l", "i", "g", "h", "t", "h", "o", "u", "s", "e", "-", "r", "e",
          "p", "o", "r", "t", "-">>
        \o <<ToString(timestamp)>> \o <<".", "j", "s", "o", "n">>
  IN
    <<"n", "p", "x", " ", "l", "i", "g", "h", "t", "h", "o", "u", "s", "e",
      " ">>
    \o quote \o u \o quote \o
    <<" ", "-", "-", "o", "u", "t", "p", "u", "t", "=", "j", "s", "o", "n",
      " ", "-", "-", "o", "u", "t", "p", "u", "t", "-", "p", "a", "t", "h",
      "=">>
    \o quote \o reportPath \o quote \o
    <<" ", "-", "-", "c", "h", "r", "o", "m", "e", "-", "f", "l", "a", "g",
      "s", "=", "\"", "-", "-", "h", "e", "a", "d", "l", "e", "s", "s",
      " ", "-", "-", "n", "o", "-", "s", "a", "n", "d", "b", "o", "x", " ",
      "-", "-", "d", "i", "s", "a", "b", "l", "e", "-", "g", "p", "u", " ",
      "-", "-", "d", "i", "s", "a", "b", "l", "e", "-", "d", "e", "v", "-",
      "s", "h", "m", "-", "u", "s", "a", "g", "e", "\"", " ", "-", "-",
      "t", "i", "m", "e", "o", "u", "t", "=", "6", "0", "0", "0", "0", " ",
      "-", "-", "p", "r", "e", "s", "e", "t", "=", "d", "e", "s", "k", "t",
      "o", "p", " ", "-", "-", "o", "n", "l", "y", "-", "c", "a", "t", "e",
      "g", "o", "r", "i", "e", "s", "=", "p", "e", "r", "f", "o", "r", "m",
      "a", "n", "c", "e", ",", "a", "c", "c", "e", "s", "s", "i", "b", "i",
      "l", "i", "t", "y", ",", "b", "e", "s", "t", "-", "p", "r", "a", "c",
      "t", "i", "c", "e", "s", ",", "s", "e", "o", ",", "p", "w", "a", " ",
      "-", "-", "m", "a", "x", "-", "w", "a", "i", "t", "-", "f", "o", "r",
      "-", "l", "o", "a", "d", "=", "3", "0", "0", "0", "0", " ", "-", "-",
      "t", "h", "r", "o", "t", "t", "l", "i", "n", "g", "-", "m", "e", "t",
      "h", "o", "d", "=", "d", "e", "v", "t", "o", "o", "l", "s">>

\* execAsync(command): child_process.exec hands the string to /bin/sh -c,
\* which reads the whole line before it runs anything.  Of the shell's
\* syntax, what the characters of a command here can trigger: a blank ends
\* a word and ';' a command outside double quotes; a double quote opens or
\* closes a quoted part of a word; a backquote opens or closes a command
\* substitution, inside double quotes too; '$' before a name character or
\* '$' is a parameter expansion, inside double quotes too; a quote or a
\* substitution left open, or an empty command before ';', is a syntax error
\* and nothing runs.  The answer has the commands as lists of words, the
\* texts run as substitutions, and whether a parameter was expanded; the
\* position after the last character stands for the end of the line.
RECURSIVE ShellParse(_, _, _, _)
ShellParse(command, from, to, st) ==
  LET EndWord(s) ==
        [s EXCEPT !.words = IF s.inWord THEN Append(@, s.word) ELSE @,
                  !.word = <<>>, !.inWord = FALSE]
      EndCommand(s) ==
        LET e == EndWord(s)
        IN [e EXCEPT !.commands = IF e.words = <<>> THEN @ ELSE Append(@, e.words),
                     !.words = <<>>]
      c == command[from]
      following == IF from < Len(command) THEN command[from + 1] ELSE ""
      half == (from + to) \div 2
  IN IF from > to \/ st.error THEN st
     ELSE IF from < to
     THEN \* the characters from..to, read left to right
          ShellParse(command, half + 1, to, ShellParse(command, from, half, st))
     ELSE IF from > Len(command)
     THEN \* the end of the line
          IF st.quoted \/ st.backquoted THEN [st EXCEPT !.error = TRUE]
          ELSE EndCommand(st)
     ELSE IF st.backquoted
     THEN IF c = "backquote"
          THEN [st EXCEPT !.backquoted = FALSE, !.inWord = TRUE,
                          !.substitutions = Append(@, st.substitution),
                          !.substitution = <<>>]
          ELSE [st EXCEPT !.substitution = Append(@, c)]
     ELSE IF c = "backquote" THEN [st EXCEPT !.backquoted = TRUE]
     ELSE IF c = "\"" THEN [st EXCEPT !.quoted = ~@, !.inWord = TRUE]
     ELSE IF c = "$" /\ following \in {"a", "$"}
     THEN [st EXCEPT !.expanded = TRUE, !.inWord = TRUE, !.word = Append(@, c)]
     ELSE IF ~st.quoted /\ c = " " THEN EndWord(st)
     ELSE IF ~st.quoted /\ c = ";"
     THEN IF EndWord(st).words = <<>> THEN [st EXCEPT !.error = TRUE]
          ELSE EndCommand(st)
     ELSE [st EXCEPT !.inWord = TRUE, !.word = Append(@, c)]

\* a client has sent a url: any string of at most MaxUrlLen characters out
\* of a letter, a blank, and the four characters the shell gives a meaning
\* inside or after double quotes ("backquote" stands for the character
\* U+0060, which a string here cannot hold)
InitCommand ==
  /\ InitService
  /\ env.LIGHTHOUSE_TIMEOUT = <<>>
  /\ reportData = Nothing
  /\ analysis = Nothing
  /\ results = Nothing
  /\ clientUrl \in UNION { [1..n -> {"a", " ", "\"", "backquote", "$", ";"}] :
                           n \in 0..MaxUrlLen }
  /\ responseHeaders = Nothing
  /\ returned = <<>>

\* runLighthouseAnalysis up to execAsync(command): the url gets its scheme,
\* the command is built, and the shell reads it
ExecCommand ==
  /\ returned = <<>>
  /\ returned' =
       <<ShellParse(LighthouseCommand(NormalizeUrl(clientUrl), DateNow), 1,
                    Len(LighthouseCommand(NormalizeUrl(clientUrl), DateNow)) + 1,
                    [quoted |-> FALSE, backquoted |-> FALSE, inWord |-> FALSE,
                     word |-> <<>>, words |-> <<>>, commands |-> <<>>,
                     substitution |-> <<>>, substitutions |-> <<>>,
                     expanded |-> FALSE, error |-> FALSE])>>
  /\ UNCHANGED <<now, files, env, req, reportData, analysis, results, clientUrl,
                 responseHeaders>>

SpecCommand == InitCommand /\ [][ExecCommand]_vars

(***************************************************************************)
(* POST tech-stack: categorizeTechnologies and its keyword tables.         *)
(***************************************************************************)
\* most technologies in results.technologies
MaxTechs == 2

\* String.prototype.toLowerCase
ToLowerCase(s) ==
  LET lower ==
      [A |-> "a", B |-> "b", C |-> "c", D |-> "d", E |-> "e", F |-> "f",
       G |-> "g", H |-> "h", I |-> "i", J |-> "j", K |-> "k", L |-> "l",
       M |-> "m", N |-> "n", O |-> "o", P |-> "p", Q |-> "q", R |-> "r",
       S |-> "s", T |-> "t", U |-> "u", V |-> "v", W |-> "w", X |-> "x",
       Y |-> "y", Z |-> "z"]
  IN [i \in 1..Len(s) |-> IF s[i] \in DOMAIN lower THEN lower[s[i]] ELSE s[i]]

\* String.prototype.includes
Includes(s, keyword) ==
  \E i \in 0..(Len(s) - Len(keyword)) : SubSeq(s, i + 1, i + Len(keyword)) = keyword

\* keywords.some(keyword => name.includes(keyword) || category.includes(keyword))
SomeKeyword(keywords, name, category) ==
  \E k \in 1..Len(keywords) :
    Includes(name, keywords[k]) \/ Includes(category, keywords[k])

\* the if / else if chain of categorizeTechnology: the buckets in the order
\* they are tried, each with the keyword table of its test
BucketOrder ==
  <<
    [bucket |-> "frontend",  \* isFrontendTech: frontendKeywords
     keywords |-> <<
       <<"r", "e", "a", "c", "t">>,  \* react
       <<"v", "u", "e">>,  \* vue
       <<"a", "n", "g", "u", "l", "a", "r">>,  \* angular
       <<"j", "q", "u", "e", "r", "y">>,  \* jquery
       <<"b", "o", "o", "t", "s", "t", "r", "a", "p">>,  \* bootstrap
       <<"t", "a", "i", "l", "w", "i", "n", "d">>,  \* tailwind
       <<"s", "a", "s", "s">>,  \* sass
       <<"l", "e", "s", "s">>,  \* less
       <<"w", "e", "b", "p", "a", "c", "k">>,  \* webpack
       <<"v", "i", "t", "e">>,  \* vite
       <<"p", "a", "r", "c", "e", "l">>,  \* parcel
       <<"g", "u", "l", "p">>,  \* gulp
       <<"g", "r", "u", "n", "t">>,  \* grunt
       <<"t", "y", "p", "e", "s", "c", "r", "i", "p", "t">>,  \* typescript
       <<"j", "a", "v", "a", "s", "c", "r", "i", "p", "t">>,  \* javascript
       <<"h", "t", "m", "l", "5">>,  \* html5
       <<"c", "s", "s", "3">>,  \* css3
       <<"p", "w", "a">>,  \* pwa
       <<"s", "e", "r", "v", "i", "c", "e", " ", "w", "o", "r", "k", "e", "r">>,  \* service worker
       <<"w", "e", "b", " ", "c", "o", "m", "p", "o", "n", "e", "n", "t", "s">>   \* web components
     >>],
    [bucket |-> "backend",  \* isBackendTech: backendKeywords
     keywords |-> <<
       <<"n", "o", "d", "e", ".", "j", "s">>,  \* node.js
       <<"e", "x", "p", "r", "e", "s", "s">>,  \* express
       <<"d", "j", "a", "n", "g", "o">>,  \* django
       <<"f", "l", "a", "s", "k">>,  \* flask
       <<"l", "a", "r", "a", "v", "e", "l">>,  \* laravel
       <<"s", "p", "r", "i", "n", "g">>,  \* spring
       <<"a", "s", "p", ".", "n", "e", "t">>,  \* asp.net
       <<"p", "h", "p">>,  \* php
       <<"p", "y", "t", "h", "o", "n">>,  \* python
       <<"j", "a", "v", "a">>,  \* java
       <<"c", "#">>,  \* c#
       <<"r", "u", "b", "y">>,  \* ruby
       <<"r", "a", "i", "l", "s">>,  \* rails
       <<"f", "a", "s", "t", "a", "p", "i">>,  \* fastapi
       <<"k", "o", "a">>,  \* koa
       <<"h", "a", "p", "i">>,  \* hapi
       <<"s", "a", "i", "l", "s">>,  \* sails
       <<"m", "e", "t", "e", "o", "r">>,  \* meteor
       <<"s", "t", "r", "a", "p", "i">>,  \* strapi
       <<"g", "h", "o", "s", "t">>   \* ghost
     >>],
    [bucket |-> "databases",  \* isDatabase: databaseKeywords
     keywords |-> <<
       <<"m", "y", "s", "q", "l">>,  \* mysql
       <<"p", "o", "s", "t", "g", "r", "e", "s", "q", "l">>,  \* postgresql
       <<"m", "o", "n", "g", "o", "d", "b">>,  \* mongodb
       <<"r", "e", "d", "i", "s">>,  \* redis
       <<"s", "q", "l", "i", "t", "e">>,  \* sqlite
       <<"m", "a", "r", "i", "a", "d", "b">>,  \* mariadb
       <<"o", "r", "a", "c", "l", "e">>,  \* oracle
       <<"s", "q", "l", " ", "s", "e", "r", "v", "e", "r">>,  \* sql server
       <<"d", "y", "n", "a", "m", "o", "d", "b">>,  \* dynamodb
       <<"f", "i", "r", "e", "b", "a", "s", "e">>,  \* firebase
       <<"s", "u", "p", "a", "b", "a", "s", "e">>   \* supabase
     >>],
    [bucket |-> "programmingLanguages",  \* isProgrammingLanguage: languageKeywords
     keywords |-> <<
       <<"j", "a", "v", "a", "s", "c", "r", "i", "p", "t">>,  \* javascript
       <<"t", "y", "p", "e", "s", "c", "r", "i", "p", "t">>,  \* typescript
       <<"p", "y", "t", "h", "o", "n">>,  \* python
       <<"p", "h", "p">>,  \* php
       <<"j", "a", "v", "a">>,  \* java
       <<"c", "#">>,  \* c#
       <<"r", "u", "b", "y">>,  \* ruby
       <<"g", "o">>,  \* go
       <<"r", "u", "s", "t">>,  \* rust
       <<"s", "w", "i", "f", "t">>,  \* swift
       <<"k", "o", "t", "l", "i", "n">>,  \* kotlin
       <<"s", "c", "a", "l", "a">>,  \* scala
       <<"e", "l", "i", "x", "i", "r">>,  \* elixir
       <<"c", "l", "o", "j", "u", "r", "e">>   \* clojure
     >>],
    [bucket |-> "frameworks",  \* isFramework: frameworkKeywords
     keywords |-> <<
       <<"r", "e", "a", "c", "t">>,  \* react
       <<"v", "u", "e">>,  \* vue
       <<"a", "n", "g", "u", "l", "a", "r">>,  \* angular
       <<"s", "v", "e", "l", "t", "e">>,  \* svelte
       <<"n", "e", "x", "t", ".", "j", "s">>,  \* next.js
       <<"n", "u", "x", "t">>,  \* nuxt
       <<"g", "a", "t", "s", "b", "y">>,  \* gatsby
       <<"d", "j", "a", "n", "g", "o">>,  \* django
       <<"f", "l", "a", "s", "k">>,  \* flask
       <<"e", "x", "p", "r", "e", "s", "s">>,  \* express
       <<"l", "a", "r", "a", "v", "e", "l">>,  \* laravel
       <<"s", "p", "r", "i", "n", "g">>,  \* spring
       <<"a", "s", "p", ".", "n", "e", "t">>,  \* asp.net
       <<"r", "a", "i", "l", "s">>,  \* rails
       <<"f", "a", "s", "t", "a", "p", "i">>,  \* fastapi
       <<"k", "o", "a">>,  \* koa
       <<"h", "a", "p", "i">>,  \* hapi
       <<"s", "a", "i", "l", "s">>   \* sails
     >>],
    [bucket |-> "libraries",  \* isLibrary: libraryKeywords
     keywords |-> <<
       <<"j", "q", "u", "e", "r", "y">>,  \* jquery
       <<"l", "o", "d", "a", "s", "h">>,  \* lodash
       <<"m", "o", "m", "e", "n", "t">>,  \* moment
       <<"a", "x", "i", "o", "s">>,  \* axios
       <<"f", "e", "t", "c", "h">>,  \* fetch
       <<"s", "o", "c", "k", "e", "t", ".", "i", "o">>,  \* socket.io
       <<"t", "h", "r", "e", "e", ".", "j", "s">>,  \* three.js
       <<"d", "3">>,  \* d3
       <<"c", "h", "a", "r", "t", ".", "j", "s">>,  \* chart.js
       <<"f", "a", "b", "r", "i", "c">>,  \* fabric
       <<"k", "o", "n", "v", "a">>   \* konva
     >>],
    [bucket |-> "cms",  \* isCMS: cmsKeywords
     keywords |-> <<
       <<"w", "o", "r", "d", "p", "r", "e", "s", "s">>,  \* wordpress
       <<"d", "r", "u", "p", "a", "l">>,  \* drupal
       <<"j", "o", "o", "m", "l", "a">>,  \* joomla
       <<"m", "a", "g", "e", "n", "t", "o">>,  \* magento
       <<"s", "h", "o", "p", "i", "f", "y">>,  \* shopify
       <<"s", "q", "u", "a", "r", "e", "s", "p", "a", "c", "e">>,  \* squarespace
       <<"w", "i", "x">>,  \* wix
       <<"w", "e", "b", "f", "l", "o", "w">>,  \* webflow
       <<"g", "h", "o", "s", "t">>,  \* ghost
       <<"s", "t", "r", "a", "p", "i">>,  \* strapi
       <<"c", "o", "n", "t", "e", "n", "t", "f", "u", "l">>,  \* contentful
       <<"s", "a", "n", "i", "t", "y">>   \* sanity
     >>],
    [bucket |-> "ecommerce",  \* isEcommerce: ecommerceKeywords
     keywords |-> <<
       <<"s", "h", "o", "p", "i", "f", "y">>,  \* shopify
       <<"w", "o", "o", "c", "o", "m", "m", "e", "r", "c", "e">>,  \* woocommerce
       <<"m", "a", "g", "e", "n", "t", "o">>,  \* magento
       <<"p", "r", "e", "s", "t", "a", "s", "h", "o", "p">>,  \* prestashop
       <<"o", "p", "e", "n", "c", "a", "r", "t">>,  \* opencart
       <<"b", "i", "g", "c", "o", "m", "m", "e", "r", "c", "e">>,  \* bigcommerce
       <<"s", "q", "u", "a", "r", "e", "s", "p", "a", "c", "e">>,  \* squarespace
       <<"w", "i", "x">>,  \* wix
       <<"w", "e", "b", "f", "l", "o", "w">>,  \* webflow
       <<"s", "t", "r", "i", "p", "e">>,  \* stripe
       <<"p", "a", "y", "p", "a", "l">>,  \* paypal
       <<"r", "a", "z", "o", "r", "p", "a", "y">>,  \* razorpay
       <<"r", "a", "z", "o", "r", "p", "a", "y">>,  \* razorpay
       <<"s", "q", "u", "a", "r", "e">>   \* square
     >>],
    [bucket |-> "analytics",  \* isAnalytics: analyticsKeywords
     keywords |-> <<
       <<"g", "o", "o", "g", "l", "e", " ", "a", "n", "a", "l", "y", "t", "i", "c", "s">>,  \* google analytics
       <<"g", "t", "a", "g">>,  \* gtag
       <<"g", "a">>,  \* ga
       <<"h", "o", "t", "j", "a", "r">>,  \* hotjar
       <<"s", "e", "g", "m", "e", "n", "t">>,  \* segment
       <<"m", "i", "x", "p", "a", "n", "e", "l">>,  \* mixpanel
       <<"a", "m", "p", "l", "i", "t", "u", "d", "e">>,  \* amplitude
       <<"h", "e", "a", "p">>,  \* heap
       <<"k", "i", "s", "s", "m", "e", "t", "r", "i", "c", "s">>,  \* kissmetrics
       <<"c", "r", "a", "z", "y", " ", "e", "g", "g">>,  \* crazy egg
       <<"o", "p", "t", "i", "m", "i", "z", "e", "l", "y">>,  \* optimizely
       <<"g", "o", "o", "g", "l", "e", " ", "t", "a", "g", " ", "m", "a", "n", "a", "g", "e", "r">>,  \* google tag manager
       <<"f", "a", "c", "e", "b", "o", "o", "k", " ", "p", "i", "x", "e", "l">>,  \* facebook pixel
       <<"t", "w", "i", "t", "t", "e", "r", " ", "p", "i", "x", "e", "l">>   \* twitter pixel
     >>],
    [bucket |-> "webServers",  \* isWebServer: serverKeywords
     keywords |-> <<
       <<"a", "p", "a", "c", "h", "e">>,  \* apache
       <<"n", "g", "i", "n", "x">>,  \* nginx
       <<"i", "i", "s">>,  \* iis
       <<"l", "i", "g", "h", "t", "t", "p", "d">>,  \* lighttpd
       <<"c", "a", "d", "d", "y">>,  \* caddy
       <<"t", "r", "a", "e", "f", "i", "k">>   \* traefik
     >>],
    [bucket |-> "cdn",  \* isCDN: cdnKeywords
     keywords |-> <<
       <<"c", "l", "o", "u", "d", "f", "l", "a", "r", "e">>,  \* cloudflare
       <<"a", "k", "a", "m", "a", "i">>,  \* akamai
       <<"f", "a", "s", "t", "l", "y">>,  \* fastly
       <<"a", "w", "s", " ", "c", "l", "o", "u", "d", "f", "r", "o", "n", "t">>,  \* aws cloudfront
       <<"a", "z", "u", "r", "e", " ", "c", "d", "n">>,  \* azure cdn
       <<"g", "o", "o", "g", "l", "e", " ", "c", "l", "o", "u", "d", " ", "c", "d", "n">>,  \* google cloud cdn
       <<"b", "u", "n", "n", "y", " ", "c", "d", "n">>,  \* bunny cdn
       <<"k", "e", "y", "c", "d", "n">>,  \* keycdn
       <<"s", "t", "a", "c", "k", "p", "a", "t", "h">>   \* stackpath
     >>],
    [bucket |-> "hosting",  \* isHosting: hostingKeywords
     keywords |-> <<
       <<"a", "w", "s">>,  \* aws
       <<"a", "m", "a", "z", "o", "n", " ", "w", "e", "b", " ", "s", "e", "r", "v", "i", "c", "e", "s">>,  \* amazon web services
       <<"a", "z", "u", "r", "e">>,  \* azure
       <<"g", "o", "o", "g", "l", "e", " ", "c", "l", "o", "u", "d">>,  \* google cloud
       <<"h", "e", "r", "o", "k", "u">>,  \* heroku
       <<"d", "i", "g", "i", "t", "a", "l", "o", "c", "e", "a", "n">>,  \* digitalocean
       <<"l", "i", "n", "o", "d", "e">>,  \* linode
       <<"v", "u", "l", "t", "r">>,  \* vultr
       <<"n", "e", "t", "l", "i", "f", "y">>,  \* netlify
       <<"v", "e", "r", "c", "e", "l">>,  \* vercel
       <<"f", "i", "r", "e", "b", "a", "s", "e">>,  \* firebase
       <<"s", "u", "r", "g", "e">>,  \* surge
       <<"g", "i", "t", "h", "u", "b", " ", "p", "a", "g", "e", "s">>,  \* github pages
       <<"g", "i", "t", "l", "a", "b", " ", "p", "a", "g", "e", "s">>   \* gitlab pages
     >>],
    [bucket |-> "cloudServices",  \* isCloudService: cloudKeywords
     keywords |-> <<
       <<"a", "w", "s">>,  \* aws
       <<"a", "z", "u", "r", "e">>,  \* azure
       <<"g", "o", "o", "g", "l", "e", " ", "c", "l", "o", "u", "d">>,  \* google cloud
       <<"f", "i", "r", "e", "b", "a", "s", "e">>,  \* firebase
       <<"s", "u", "p", "a", "b", "a", "s", "e">>,  \* supabase
       <<"h", "e", "r", "o", "k", "u">>,  \* heroku
       <<"v", "e", "r", "c", "e", "l">>,  \* vercel
       <<"n", "e", "t", "l", "i", "f", "y">>,  \* netlify
       <<"d", "i", "g", "i", "t", "a", "l", "o", "c", "e", "a", "n">>,  \* digitalocean
       <<"l", "i", "n", "o", "d", "e">>,  \* linode
       <<"v", "u", "l", "t", "r">>   \* vultr
     >>],
    [bucket |-> "security",  \* isSecurity: securityKeywords
     keywords |-> <<
       <<"r", "e", "c", "a", "p", "t", "c", "h", "a">>,  \* recaptcha
       <<"s", "s", "l">>,  \* ssl
       <<"t", "l", "s">>,  \* tls
       <<"c", "s", "p">>,  \* csp
       <<"h", "s", "t", "s">>,  \* hsts
       <<"x", "s", "s", " ", "p", "r", "o", "t", "e", "c", "t", "i", "o", "n">>,  \* xss protection
       <<"c", "s", "r", "f">>,  \* csrf
       <<"s", "e", "c", "u", "r", "i", "t", "y", " ", "h", "e", "a", "d", "e", "r", "s">>,  \* security headers
       <<"c", "l", "o", "u", "d", "f", "l", "a", "r", "e", " ", "s", "e", "c", "u", "r", "i", "t", "y">>,  \* cloudflare security
       <<"s", "u", "c", "u", "r", "i">>,  \* sucuri
       <<"i", "n", "c", "a", "p", "s", "u", "l", "a">>,  \* incapsula
       <<"a", "k", "a", "m", "a", "i", " ", "s", "e", "c", "u", "r", "i", "t", "y">>   \* akamai security
     >>],
    [bucket |-> "paymentProcessors",  \* isPaymentProcessor: paymentKeywords
     keywords |-> <<
       <<"s", "t", "r", "i", "p", "e">>,  \* stripe
       <<"p", "a", "y", "p", "a", "l">>,  \* paypal
       <<"r", "a", "z", "o", "r", "p", "a", "y">>,  \* razorpay
       <<"s", "q", "u", "a", "r", "e">>,  \* square
       <<"a", "d", "y", "e", "n">>,  \* adyen
       <<"b", "r", "a", "i", "n", "t", "r", "e", "e">>,  \* braintree
       <<"w", "o", "r", "l", "d", "p", "a", "y">>,  \* worldpay
       <<"s", "a", "g", "e">>,  \* sage
       <<"q", "u", "i", "c", "k", "b", "o", "o", "k", "s">>,  \* quickbooks
       <<"x", "e", "r", "o">>,  \* xero
       <<"f", "r", "e", "s", "h", "b", "o", "o", "k", "s">>   \* freshbooks
     >>],
    [bucket |-> "advertisingNetworks",  \* isAdvertisingNetwork: adKeywords
     keywords |-> <<
       <<"g", "o", "o", "g", "l", "e", " ", "a", "d", "s">>,  \* google ads
       <<"f", "a", "c", "e", "b", "o", "o", "k", " ", "a", "d", "s">>,  \* facebook ads
       <<"t", "w", "i", "t", "t", "e", "r", " ", "a", "d", "s">>,  \* twitter ads
       <<"l", "i", "n", "k", "e", "d", "i", "n", " ", "a", "d", "s">>,  \* linkedin ads
       <<"a", "m", "a", "z", "o", "n", " ", "a", "d", "s">>,  \* amazon ads
       <<"b", "i", "n", "g", " ", "a", "d", "s">>,  \* bing ads
       <<"t", "a", "b", "o", "o", "l", "a">>,  \* taboola
       <<"o", "u", "t", "b", "r", "a", "i", "n">>,  \* outbrain
       <<"a", "d", "r", "o", "l", "l">>,  \* adroll
       <<"g", "o", "o", "g", "l", "e", " ", "a", "d", "w", "o", "r", "d", "s">>,  \* google adwords
       <<"g", "o", "o", "g", "l", "e", " ", "a", "d", "s", "e", "n", "s", "e">>,  \* google adsense
       <<"d", "o", "u", "b", "l", "e", "c", "l", "i", "c", "k">>   \* doubleclick
     >>],
    [bucket |-> "abTesting",  \* isABTesting: abTestingKeywords
     keywords |-> <<
       <<"o", "p", "t", "i", "m", "i", "z", "e", "l", "y">>,  \* optimizely
       <<"v", "w", "o">>,  \* vwo
       <<"g", "o", "o", "g", "l", "e", " ", "o", "p", "t", "i", "m", "i", "z", "e">>,  \* google optimize
       <<"a", "b", " ", "t", "a", "s", "t", "y">>,  \* ab tasty
       <<"c", "o", "n", "v", "e", "r", "t">>,  \* convert
       <<"k", "i", "s", "s", "m", "e", "t", "r", "i", "c", "s">>,  \* kissmetrics
       <<"m", "i", "x", "p", "a", "n", "e", "l">>,  \* mixpanel
       <<"a", "m", "p", "l", "i", "t", "u", "d", "e">>,  \* amplitude
       <<"h", "o", "t", "j", "a", "r">>,  \* hotjar
       <<"c", "r", "a", "z", "y", " ", "e", "g", "g">>   \* crazy egg
     >>]
  >>

KeywordsOf(b) ==
  BucketOrder[CHOOSE i \in 1..Len(BucketOrder) : BucketOrder[i].bucket = b].keywords

\* the categories object before a technology is placed
EmptyCategories ==
  [b \in { BucketOrder[i].bucket : i \in 1..Len(BucketOrder) } |-> <<>>]

\* name: tech.name, category: tech.category || 'Unknown'
techInfo(tech) ==
  [name |-> tech.name,
   category |-> IF tech.category = Undefined
                THEN <<"U", "n", "k", "n", "o", "w", "n">> ELSE tech.category]

\* the first bucket, from position i on, whose table matches
RECURSIVE FirstMatch(_, _, _)
FirstMatch(name, category, i) ==
  IF i > Len(BucketOrder) THEN "none"
  ELSE IF SomeKeyword(BucketOrder[i].keywords, name, category) THEN BucketOrder[i].bucket
  ELSE FirstMatch(name, category, i + 1)

\* a chain of independent if statements
categorizeTechnologyEveryMatch(tech, categories) ==
  [b \in DOMAIN categories |->
     IF SomeKeyword(KeywordsOf(b), ToLowerCase(tech.name), ToLowerCase(tech.category))
     THEN Append(categories[b], tech) ELSE categories[b]]

categorizeTechnology(tech, categories) ==
  LET b == FirstMatch(ToLowerCase(tech.name), ToLowerCase(tech.category), 1)
  IN IF b = "none" THEN categories ELSE [categories EXCEPT ![b] = Append(@, tech)]

\* results.technologies.forEach
RECURSIVE CategorizeEach(_, _)
CategorizeEach(technologies, categories) ==
  IF technologies = <<>> THEN categories
  ELSE CategorizeEach(Tail(technologies),
                      categorizeTechnology(techInfo(Head(technologies)), categories))

categorizeTechnologies(res) ==
  IF ~res.data THEN EmptyCategories
  ELSE CategorizeEach(res.technologies, EmptyCategories)

\* detected technologies: seven names, each without a category or of the
\* category Java
Technologies ==
  [name :
     { <<"R", "e", "a", "c", "t">>,  \* React
       <<"J", "a", "v", "a">>,  \* Java
       <<"M", "a", "g", "e", "n", "t", "o">>,  \* Magento
       <<"N", "g", "i", "n", "x">>,  \* Nginx
       <<"S", "t", "r", "i", "p", "e">>,  \* Stripe
       <<"V", "e", "r", "c", "e", "l">>,  \* Vercel
       <<"Q", "t">>   \* Qt
     },
   category : { Undefined, <<"J", "a", "v", "a">> }]

\* the technologies named after the keywords of bucket b's own table, in
\* the table's order, none with a category
KeywordTechnologies(b) ==
  [i \in 1..Len(KeywordsOf(b)) |-> [name |-> KeywordsOf(b)[i], category |-> Undefined]]

\* what page.analyze() resolved with: nothing, a list of technologies, or
\* the technologies named after one bucket's keywords
ResultInputs ==
  { Null } \cup
  { [data |-> TRUE, technologies |-> t] :
      t \in UNION { [1..n -> Technologies] : n \in 0..MaxTechs } } \cup
  { [data |-> TRUE, technologies |-> KeywordTechnologies(b)] : b \in DOMAIN EmptyCategories }

\* the fingerprinting engine has answered
InitTechnologies ==
  /\ InitService
  /\ env.LIGHTHOUSE_TIMEOUT = <<>>
  /\ reportData = Nothing
  /\ analysis = Nothing
  /\ results \in ResultInputs
  /\ clientUrl = Nothing
  /\ responseHeaders = Nothing
  /\ returned = <<>>

\* const categorizedResults = this.categorizeTechnologies(results)
Categorize ==
  /\ returned = <<>>
  /\ returned' = <<categorizeTechnologies(results)>>
  /\ UNCHANGED <<now, files, env, req, reportData, analysis, results, clientUrl,
                 responseHeaders>>

SpecTechnologies == InitTechnologies /\ [][Categorize]_vars

(***************************************************************************)
(* POST security-headers: analyzeSecurityHeadersData.                      *)
(***************************************************************************)
\* Math.round((presentHeaders / 6) * 100), truncated instead of rounded
securityScoreTruncated(presentHeaders) == (100 * presentHeaders) \div 6

\* Math.round((presentHeaders / 6) * 100)
securityScore(presentHeaders) == (200 * presentHeaders + 6) \div 12

\* headers is res.headers, which has the header names in lower case: a name
\* it does not have reads as undefined, and a header sent with an empty
\* value reads as '', both falsy
analyzeSecurityHeadersData(headers, isHttps) ==
  LET Get(k) == IF k \in DOMAIN headers THEN headers[k] ELSE Undefined
      Truthy(v) == v # Undefined /\ v # <<>>
      \* headers[lower] || headers[upper]
      Value(c) == IF Truthy(Get(c.lower)) THEN Get(c.lower) ELSE Get(c.upper)
      checks ==
        << [lower |-> "strict-transport-security", upper |-> "Strict-Transport-Security",
            missing |-> "Add HSTS header to prevent downgrade attacks",
            configured |-> "HSTS is properly configured"],
           [lower |-> "content-security-policy", upper |-> "Content-Security-Policy",
            missing |-> "Add CSP header to prevent XSS attacks",
            configured |-> "CSP is properly configured"],
           [lower |-> "x-frame-options", upper |-> "X-Frame-Options",
            missing |-> "Add X-Frame-Options to prevent clickjacking",
            configured |-> "X-Frame-Options is properly configured"],
           [lower |-> "x-content-type-options", upper |-> "X-Content-Type-Options",
            missing |-> "Add X-Content-Type-Options to prevent MIME sniffing",
            configured |-> "X-Content-Type-Options is properly configured"],
           [lower |-> "referrer-policy", upper |-> "Referrer-Policy",
            missing |-> "Add Referrer-Policy to protect sensitive referral data",
            configured |-> "Referrer-Policy is properly configured"],
           [lower |-> "permissions-policy", upper |-> "Permissions-Policy",
            missing |-> "Add Permissions-Policy to restrict feature access",
            configured |-> "Permissions-Policy is properly configured"] >>
      Entry(c) ==
        IF Truthy(Value(c))
        THEN [present |-> TRUE, value |-> Value(c), status |-> "Present",
              recommendation |-> c.configured]
        ELSE [present |-> FALSE, value |-> Undefined, status |-> "Missing",
              recommendation |-> c.missing]
      presentHeaders == Cardinality({ i \in 1..6 : Entry(checks[i]).present })
      score == securityScore(presentHeaders)
      absent == SelectSeq(checks, LAMBDA c : ~Entry(c).present)
  IN [https |-> [enabled |-> isHttps, status |-> IF isHttps THEN "Secure" ELSE "Insecure"],
      hsts |-> Entry(checks[1]),
      csp |-> Entry(checks[2]),
      xFrameOptions |-> Entry(checks[3]),
      xContentTypeOptions |-> Entry(checks[4]),
      referrerPolicy |-> Entry(checks[5]),
      permissionsPolicy |-> Entry(checks[6]),
      summary |->
        [totalHeaders |-> presentHeaders,
         securityScore |-> score,
         overallStatus |-> IF score >= 80 THEN "Excellent"
                           ELSE IF score >= 60 THEN "Good"
                           ELSE IF score >= 40 THEN "Fair"
                           ELSE IF score >= 20 THEN "Poor"
                           ELSE "Very Poor",
         recommendations |-> [i \in 1..Len(absent) |-> Entry(absent[i]).recommendation]]]

\* a site has answered: each of the six checked headers is not sent, sent
\* with an empty value, or sent with a value
InitHeaders ==
  /\ InitService
  /\ env.LIGHTHOUSE_TIMEOUT = <<>>
  /\ reportData = Nothing
  /\ analysis = Nothing
  /\ results = Nothing
  /\ clientUrl = Nothing
  /\ responseHeaders \in
       [{"strict-transport-security", "content-security-policy", "x-frame-options",
         "x-content-type-options", "referrer-policy", "permissions-policy"}
        -> {Undefined, <<>>, <<"v">>}]
  /\ returned = <<>>

\* the response callback of getSecurityHeaders:
\* this.analyzeSecurityHeadersData(headers, isHttps)
AnalyzeHeaders ==
  /\ returned = <<>>
  /\ \E isHttps \in BOOLEAN :
       returned' = <<analyzeSecurityHeadersData(responseHeaders, isHttps)>>
  /\ UNCHANGED <<now, files, env, req, reportData, analysis, results, clientUrl,
                 responseHeaders>>

SpecHeaders == InitHeaders /\ [][AnalyzeHeaders]_vars

(***************************************************************************)
(* Specifications.                                                         *)
(***************************************************************************)
\* lighthouse requests arrive while others are in flight; two clients that
\* ask for the same site, and an auditor that writes a whole report or a
\* truncated one
ConcurrentBodies == { [present |-> TRUE, url |-> HOST] }
ConcurrentReports == { NoReport, ValidReport }

InitConcurrent == Init /\ env.LIGHTHOUSE_TIMEOUT = <<>>

NextConcurrent ==
  \/ Tick
  \/ \E r \in Req :
       \/ PostLighthouseFrom(r, ConcurrentBodies)
       \/ LighthouseProcessWith(r, ConcurrentReports)
       \/ LighthouseStep(r)
       \/ Respond(r)

SpecConcurrent == InitConcurrent /\ [][NextConcurrent]_vars

\* the six routes, one request at a time
Arrive(r) ==
  \/ PostLighthouse(r)
  \/ PostTechStack(r)
  \/ PostSecurityHeaders(r)
  \/ PostMobileFriendly(r)
  \/ PostCoreWebVitals(r)
  \/ GetTestWebsite(r)

Next ==
  \/ Tick
  \/ \E r \in Req :
       \/ AllIdle /\ Arrive(r)
       \/ LighthouseProcess(r)
       \/ LighthouseStep(r)
       \/ TechStackStep(r)
       \/ SecurityHeadersStep(r)
       \/ MobileFriendlyStep(r)
       \/ CoreWebVitalsStep(r)
       \/ TestWebsiteStep(r)
       \/ Respond(r)

Spec == Init /\ [][Next]_vars

\* security-headers and mobile-friendly requests, one at a time, where
\* timers fire: the 10 s timer while it is armed, the socket timeout while
\* the socket has been inactive, and a pause in the body goes on until a
\* chunk, the end of the body or the socket timeout ends it.  The site is
\* free to answer or not, and to send chunks or not.
SpecHttp ==
  /\ Init
  /\ [][\E r \in Req :
          \/ AllIdle /\ (PostSecurityHeaders(r) \/ PostMobileFriendly(r))
          \/ SecurityHeadersStep(r)
          \/ MobileFriendlyStep(r)
          \/ Respond(r)]_vars
  /\ \A r \in Req :
       /\ WF_vars(ShTimer(r))
       /\ WF_vars(ShSocketTimeout(r))
       /\ WF_vars(MfTimer(r))
       /\ WF_vars(MfSocketTimeout(r))
       /\ WF_vars(MfQuiet(r))

(***************************************************************************)
(* Properties.                                                             *)
(***************************************************************************)
ServiceRoutes ==
  {"lighthouse", "tech-stack", "security-headers", "mobile-friendly", "core-web-vitals"}

Done(r) == req[r].pc = "done"

IsErrorBody(b) == b.kind = "body" /\ b.error /\ b.msg # ""

\* C1: when the collaborator of one of the five service handlers failed
\* (the last audit command failed, the report is missing or malformed, the
\* engine, the HTTP request or the remote API failed or timed out), the
\* handler returned a body with url, error = true and a message; the only
\* exception a route of the five can end with is the controller's own, raised
\* before the service handler is entered.
C1_FailuresBecomeErrorBodies ==
  \A r \in Req :
    (req[r].route \in ServiceRoutes /\ Done(r)) =>
      /\ req[r].failed =>
           IsErrorBody(req[r].result) /\ req[r].result.url = req[r].url
      /\ req[r].result.kind = "exception" =>
           req[r].result.msg = ControllerTypeError /\ ~req[r].collab

C1_Witness ==
  \E r \in Req :
    /\ req[r].route = "lighthouse" /\ Done(r) /\ req[r].failed
    /\ req[r].fallbackRuns = 1
    /\ IsErrorBody(req[r].result)

\* C2: when runLighthouseAnalysis has returned, the report file its audit
\* commands created no longer exists.
C2_ReportDeleted ==
  \A r \in Req :
    (req[r].route = "lighthouse" /\ Done(r) /\ req[r].created) =>
      ~files[req[r].ts].exists

\* C3: two lighthouse requests in flight at the same time use different
\* report file paths.
C3_DistinctReportPaths ==
  \A r1, r2 \in Req :
    ( /\ r1 # r2
      /\ req[r1].route = "lighthouse" /\ req[r2].route = "lighthouse"
      /\ ~Done(r1) /\ ~Done(r2)
      /\ req[r1].ts >= 0 /\ req[r2].ts >= 0 ) =>
      req[r1].ts # req[r2].ts

C5_AtMostOneFallback ==
  \A r \in Req :
    /\ req[r].primaryRuns <= 1
    /\ req[r].fallbackRuns <= 1
    /\ req[r].fallbackRuns = 1 => (req[r].primaryRuns = 1 /\ req[r].primaryFailed)
    /\ req[r].primaryRuns + req[r].fallbackRuns <= 2

C5_Witness ==
  \E r \in Req :
    /\ Done(r) /\ req[r].primaryRuns = 1 /\ req[r].fallbackRuns = 1
    /\ req[r].proc.kind = "CommandFailed"

\* C6 as stated: one core-web-vitals request sends at most one request to the
\* CrUX API.
C6_SingleCruxRequest ==
  \A r \in Req : req[r].cruxCalls <= 1

\* C6 as amended: one core-web-vitals request sends at most two requests to
\* the CrUX API, the second one only after the first was answered with status
\* 404; after any other answer there is exactly one.
C6_SecondCruxRequestOnlyAfter404 ==
  \A r \in Req :
    /\ req[r].cruxCalls <= 2
    /\ req[r].cruxCalls = 2 => req[r].firstStatus = 404
    /\ (Done(r) /\ req[r].cruxCalls >= 1 /\ req[r].firstStatus # 404) => req[r].cruxCalls = 1

C6_Witness ==
  \E r \in Req :
    Done(r) /\ req[r].cruxCalls = 2 /\ req[r].firstStatus = 404

\* C7: in each of the six handlers the URL handed to the collaborator begins
\* with 'http://' or 'https://', and the url field of the response body is
\* the input with 'https://' put in front unless it had such a prefix.
C7_UrlNormalized ==
  \A r \in Req :
    /\ req[r].collab => HasScheme(req[r].collabUrl)
    /\ (Done(r) /\ req[r].result.kind = "body" /\ IsString(req[r].input)) =>
         /\ HasScheme(req[r].result.url)
         /\ req[r].result.url = (IF HasScheme(req[r].input) THEN req[r].input
                                 ELSE HTTPS_SCHEME \o req[r].input)

\* C8: GET test-website/:url never rejects, and when the probe failed its
\* body carries error = true with url and message.
C8_ProbeFollowsFailurePolicy ==
  \A r \in Req :
    (req[r].route = "test-website" /\ Done(r)) =>
      /\ req[r].result.kind = "body"
      /\ req[r].failed => IsErrorBody(req[r].result)

\* C9: a POST to one of the five analysis routes whose body is absent or has
\* no string url is answered with an error body, never with an exception.
C9_MissingUrlAnswered ==
  \A r \in Req :
    (req[r].route \in ServiceRoutes /\ Done(r) /\ ~IsString(req[r].input)) =>
      IsErrorBody(req[r].result)

\* C10: the --timeout of the primary audit command equals
\* configuration().lighthouse.timeout.
C10_TimeoutIsConfigured ==
  \A r \in Req :
    req[r].primaryRuns >= 1 => req[r].cmdTimeout = ConfigLighthouseTimeout(env)

\* C11: with GOOGLE_API_KEY absent or empty a core-web-vitals request sends
\* no query to the CrUX API and returns the error body whose message names
\* the missing key.
C11_MissingKeyReported ==
  \A r \in Req :
    (req[r].route = "core-web-vitals" /\ ~env.GOOGLE_API_KEY) =>
      /\ req[r].cruxCalls = 0
      /\ Done(r) => req[r].result = ServiceErrorBody(req[r].url, "GOOGLE_API_KEY is not set.")

\* C12: two post-processing runs on the same parsed report and URL return
\* equal results, whenever each of them happens.
C12_PostProcessingDeterministic ==
  \A i, j \in 1..Len(returned) : returned[i] = returned[j]

C14_FirstQueryForPageUrl ==
  \A r \in Req :
    req[r].route = "core-web-vitals" =>
      /\ Len(req[r].cruxQueries) >= 1 =>
           req[r].cruxQueries[1] = CruxQuery("url", req[r].url)
      /\ Len(req[r].cruxQueries) >= 2 =>
           req[r].cruxQueries[2] = CruxQuery("origin", OriginOf(req[r].url))

\* C15: the origin query is sent only after the first CrUX query was answered
\* with status 404; a first query that fails in any other way (another
\* status, a network error) ends the request with an error body and no second
\* query; a failed origin query ends it with an error body too.
C15_OriginQueryOnlyAfter404 ==
  \A r \in Req :
    req[r].route = "core-web-vitals" =>
      /\ Len(req[r].cruxQueries) >= 2 => req[r].firstStatus = 404
      /\ (Done(r) /\ Len(req[r].cruxQueries) >= 1 /\ req[r].firstStatus \notin {200, 404}) =>
           IsErrorBody(req[r].result) /\ Len(req[r].cruxQueries) = 1
      /\ (Done(r) /\ Len(req[r].cruxQueries) = 2 /\ req[r].originStatus # 200) =>
           IsErrorBody(req[r].result)

C15_Witness ==
  \E r \in Req :
    /\ req[r].route = "core-web-vitals" /\ Done(r)
    /\ Len(req[r].cruxQueries) = 2
    /\ req[r].firstStatus = 404 /\ req[r].originStatus = 500
    /\ IsErrorBody(req[r].result)

\* C16 as stated: the summary is computed from the mobile data when there is
\* any and from the desktop data otherwise; with neither, the status is
\* 'No data available' and the score 0; in every other case the score is the
\* rounded mean of three scores: LCP, CLS and one of INP or FID (INP when it
\* has data), a metric without data scoring 0.
C16_AveragesThreeMetrics ==
  \A n \in 1..Len(returned) :
    LET m == analysis.formFactors.mobile
        d == analysis.formFactors.desktop
        primary == IF m.data THEN m ELSE d
        filled == [k \in {"lcp", "cls", "inp", "fid"} |->
                     IF primary[k].total > 0 THEN primary[k] ELSE [good |-> 0, total |-> 1]]
        third == IF primary.inp.total > 0 THEN "inp" ELSE "fid"
    IN IF ~m.data /\ ~d.data
       THEN returned[n].status = "No data available" /\ returned[n].overallScore = 0
       ELSE returned[n].overallScore =
              RoundedMean(TotalScore(filled, <<"lcp", "cls", third>>), 3)

\* C16 as amended: the summary is computed from the mobile data alone when
\* there is any, whatever the desktop and tablet data are, and from the
\* desktop data alone otherwise; with neither, the status is
\* 'No data available' and the score 0; in every other case the score is the
\* rounded mean of the scores of those metrics among LCP, CLS and one of INP
\* or FID (INP when it has data, FID otherwise) that have data, and 0 when
\* none has.
C16_AveragesMetricsWithData ==
  \A n \in 1..Len(returned) :
    LET m == analysis.formFactors.mobile
        d == analysis.formFactors.desktop
        primary == IF m.data THEN m ELSE d
        third == IF primary.inp.total > 0 THEN "inp" ELSE "fid"
        names == SelectSeq(<<"lcp", "cls", third>>, LAMBDA k : primary[k].total > 0)
        alone == [formFactors |-> [mobile |-> IF m.data THEN m ELSE Null,
                                   desktop |-> IF m.data THEN Null ELSE d,
                                   tablet |-> Null]]
    IN /\ returned[n] = calculateCoreWebVitalsSummary(alone)
       /\ IF ~m.data /\ ~d.data
          THEN returned[n].status = "No data available" /\ returned[n].overallScore = 0
          ELSE /\ returned[n].status # "No data available"
               /\ returned[n].overallScore =
                    (IF Len(names) = 0 THEN 0
                     ELSE RoundedMean(TotalScore(primary, names), Len(names)))

C16_Witness ==
  /\ Len(returned) = 1
  /\ analysis.formFactors.mobile.data /\ analysis.formFactors.desktop.data
  /\ analysis.formFactors.mobile.lcp = [good |-> 1, total |-> 2]
  /\ analysis.formFactors.mobile.cls.total = 0
  /\ analysis.formFactors.mobile.inp = [good |-> 1, total |-> 1]
  /\ analysis.formFactors.mobile.fid = [good |-> 0, total |-> 1]
  /\ returned[1].overallScore = 75

\* C17 as stated: when the primary command failed and the fallback command
\* failed too, or ended with exit code 0 without writing the report file,
\* the handler returned the error body made from the primary command's error
\* and did not parse a report.
C17_PrimaryErrorReported ==
  \A r \in Req :
    ( /\ req[r].route = "lighthouse" /\ Done(r) /\ req[r].fallbackRuns = 1
      /\ req[r].proc.kind # "exit0" \/ ~req[r].procWrote ) =>
      /\ req[r].execError.from = "primary"
      /\ req[r].result = LighthouseErrorBody(req[r].url, LhCatchMessage(req[r].execError))
      /\ ~req[r].parsed

\* C17 as amended: when the primary command failed and the fallback command
\* failed too, or ended with exit code 0 while no file exists at the report
\* path, the handler returned the error body made from the primary command's
\* error and did not parse a report; when the fallback ended with exit code 0
\* and a file exists at the report path, whoever wrote it, the file is parsed.
C17_PrimaryErrorReportedUnlessFileFound ==
  \A r \in Req :
    (req[r].route = "lighthouse" /\ Done(r) /\ req[r].fallbackRuns = 1) =>
      IF req[r].proc.kind = "exit0" /\ req[r].found
      THEN req[r].parsed
      ELSE /\ req[r].execError.from = "primary"
           /\ req[r].result = LighthouseErrorBody(req[r].url, LhCatchMessage(req[r].execError))
           /\ ~req[r].parsed

C17_Witness ==
  \E r \in Req :
    /\ req[r].route = "lighthouse" /\ Done(r) /\ req[r].fallbackRuns = 1
    /\ req[r].proc.kind = "exit0" /\ ~req[r].found
    /\ req[r].execError.tokens = {"timeout", "ECONNREFUSED"}
    /\ req[r].result.msg = "Analysis timed out. The website may be too slow or unresponsive."
    /\ ~req[r].parsed

\* C18: the suggestions list of a result has at most 10 entries and no audit
\* of the report appears in it more than once.
C18_SuggestionsBoundedAndDistinct ==
  \A n \in 1..Len(returned) :
    LET s == returned[n].suggestions
    IN /\ Len(s) <= 10
       /\ \A i, j \in 1..Len(s) : i # j => s[i].title # s[j].title

\* C19: the post-processing returns a result without error only for a report
\* that has no runtimeError, no Chrome error marker in its final screenshot,
\* both categories and audits, and a category with a score; the checks are
\* made in that order, and the message returned is that of the first check
\* the report fails.
C19_ChecksInOrder ==
  \A n \in 1..Len(returned) :
    LET c == reportData.flags
        b == returned[n].body
        marker == c.audits /\ c.chromeError
    IN /\ ~b.error =>
            ~c.runtimeError /\ ~marker /\ c.categories /\ c.audits /\ c.score
       /\ c.runtimeError => (b.error /\ b.msg = "runtimeError")
       /\ (~c.runtimeError /\ marker) =>
            (b.error /\ b.msg = "Website appears to be down or inaccessible.")
       /\ (~c.runtimeError /\ ~marker /\ (~c.categories \/ ~c.audits)) =>
            (b.error /\ b.msg = "Analysis completed but returned invalid data structure.")
       /\ (~c.runtimeError /\ ~marker /\ c.categories /\ c.audits /\ ~c.score) =>
            (b.error /\ b.msg = "Analysis completed but no valid scores were returned.")

C19_Witness ==
  \E n \in 1..Len(returned) :
    /\ ~reportData.flags.runtimeError
    /\ reportData.flags.chromeError /\ ~reportData.flags.categories
    /\ returned[n].body.msg = "Website appears to be down or inaccessible."

\* C20: every detected technology is in at most one of the 17 buckets, and
\* that bucket is the first whose keyword table matches its name or category
\* in the order frontend, backend, databases, programmingLanguages,
\* frameworks, libraries, cms, ecommerce, analytics, webServers, cdn, hosting,
\* cloudServices, security, paymentProcessors, advertisingNetworks, abTesting;
\* the buckets together hold no more entries than there are detected
\* technologies.
C20_FirstMatchingBucketOnly ==
  \A n \in 1..Len(returned) :
    LET categories == returned[n]
        technologies == IF results.data THEN results.technologies ELSE <<>>
        order == << "frontend", "backend", "databases", "programmingLanguages",
                    "frameworks", "libraries", "cms", "ecommerce", "analytics",
                    "webServers", "cdn", "hosting", "cloudServices", "security",
                    "paymentProcessors", "advertisingNetworks", "abTesting" >>
        Holds(i, t) == \E e \in 1..Len(categories[order[i]]) : categories[order[i]][e] = t
        Matches(i, t) == SomeKeyword(KeywordsOf(order[i]), ToLowerCase(t.name),
                                     ToLowerCase(t.category))
    IN /\ DOMAIN categories = { order[i] : i \in 1..17 }
       /\ \A k \in 1..Len(technologies) :
            LET t == techInfo(technologies[k])
            IN /\ Cardinality({ i \in 1..17 : Holds(i, t) }) <= 1
               /\ \A i \in 1..17 :
                    Holds(i, t) <=> (Matches(i, t) /\ \A j \in 1..(i - 1) : ~Matches(j, t))
       /\ Cardinality({ p \in (1..17) \X (1..(Len(technologies) + 1)) :
                          p[2] <= Len(categories[order[p[1]]]) })
            <= Len(technologies)

C20_Witness ==
  /\ Len(returned) = 1
  /\ results.data
  /\ Len(results.technologies) = 2
  /\ results.technologies[1] = [name |-> <<"Q", "t">>, category |-> Undefined]
  /\ results.technologies[2] = [name |-> <<"R", "e", "a", "c", "t">>, category |-> Undefined]
  /\ Len(returned[1]["frontend"]) = 1
  /\ Len(returned[1]["frameworks"]) = 0

\* C21: every bucket of the technology categorization can be populated: when
\* the detected technologies are named after the keywords of one bucket's own
\* table (each of the 17 buckets, devops.cloudServices and
\* techStack.frameworks included), categorizeTechnology has placed at least
\* one of them in that bucket.
C21_EveryBucketPopulated ==
  \A b \in DOMAIN EmptyCategories :
    (/\ results = [data |-> TRUE, technologies |-> KeywordTechnologies(b)]
     /\ returned # <<>>)
    => returned[1][b] # <<>>

\* C22: the client-supplied url reaches the Lighthouse subprocess only as one
\* quoted argument: for every url string (also with a double quote, a
\* backquote, '$' or ';' in it) the shell reads the command without a syntax
\* error as one command of eleven words: npx, lighthouse, the url (with its
\* scheme) and the eight fixed options; nothing is run as a substitution and
\* no parameter is expanded.
C22_UrlIsOneQuotedArgument ==
  \A n \in 1..Len(returned) :
    LET start == [quoted |-> FALSE, backquoted |-> FALSE, inWord |-> FALSE,
                  word |-> <<>>, words |-> <<>>, commands |-> <<>>,
                  substitution |-> <<>>, substitutions |-> <<>>,
                  expanded |-> FALSE, error |-> FALSE]
        plain == ShellParse(LighthouseCommand(<<"a">>, DateNow), 1,
                            Len(LighthouseCommand(<<"a">>, DateNow)) + 1, start).commands[1]
    IN /\ Len(plain) = 11
       /\ plain[1] = <<"n", "p", "x">>
       /\ plain[2] = <<"l", "i", "g", "h", "t", "h", "o", "u", "s", "e">>
       /\ ~returned[n].error
       /\ returned[n].commands = <<[plain EXCEPT ![3] = NormalizeUrl(clientUrl)]>>
       /\ returned[n].substitutions = <<>>
       /\ ~returned[n].expanded

\* C23: every tech-stack request that created and initialized the
\* fingerprinting engine has destroyed it when analyzeTechStack returns, on
\* the success path and on every failure path (open failure, analyze failure,
\* failure while categorizing): no finished tech-stack request is left with
\* an engine that is initialized and not destroyed.
C23_EngineDestroyedBeforeReturn ==
  \A r \in Req :
    (Done(r) /\ req[r].route = "tech-stack") => req[r].engine # "initialized"

\* C24: whenever getSecurityHeaders or getPageData rejects because of a
\* timeout (the 10-second timer fired, or the request's own 10-second socket
\* timeout), the underlying HTTP request has been destroyed and no timer of
\* that call remains pending.
C24_TimeoutLeavesNothingBehind ==
  [][\A r \in Req :
       (ShTimer(r) \/ ShSocketTimeout(r) \/ MfTimer(r) \/ MfSocketTimeout(r))
       => (req'[r].sock = "destroyed" /\ ~req'[r].timer)]_vars

\* C25: every security-headers and every mobile-friendly request eventually
\* returns a body, assuming only that timers fire: also when the site never
\* answers, and also when the site sends the response headers and then
\* never completes the body (stalling, or sending a chunk more often than
\* every 10 seconds forever).
C25_HttpRequestsReturn ==
  \A r \in Req :
    (req[r].route \in {"security-headers", "mobile-friendly"}
     /\ req[r].pc \notin {"idle", "done"})
    ~> (Done(r) /\ req[r].result.kind = "body")

\* C26: in the summary of analyzeSecurityHeadersData, for every combination
\* of the six checked headers: totalHeaders is the number of headers present
\* (sent with a value), recommendations has exactly one entry per missing
\* header (6 - totalHeaders entries, each the advice to add that header),
\* securityScore is round(100 * totalHeaders / 6), that is 0, 17, 33, 50, 67,
\* 83, 100, and overallStatus is 'Excellent' for 5 or 6 present headers,
\* 'Good' for 4, 'Fair' for 3, 'Poor' for 2 and 'Very Poor' for 0 or 1.
C26_HeaderSummary ==
  \A n \in 1..Len(returned) :
    LET summary == returned[n].summary
        advice ==
          [h \in DOMAIN responseHeaders |->
             CASE h = "strict-transport-security" ->
                    "Add HSTS header to prevent downgrade attacks"
               [] h = "content-security-policy" -> "Add CSP header to prevent XSS attacks"
               [] h = "x-frame-options" -> "Add X-Frame-Options to prevent clickjacking"
               [] h = "x-content-type-options" ->
                    "Add X-Content-Type-Options to prevent MIME sniffing"
               [] h = "referrer-policy" ->
                    "Add Referrer-Policy to protect sensitive referral data"
               [] h = "permissions-policy" ->
                    "Add Permissions-Policy to restrict feature access"]
        present == { h \in DOMAIN responseHeaders :
                       responseHeaders[h] \notin {Undefined, <<>>} }
        total == Cardinality(present)
        recommendations == summary.recommendations
    IN /\ Cardinality(DOMAIN responseHeaders) = 6
       /\ summary.totalHeaders = total
       /\ Len(recommendations) = 6 - total
       /\ \A h \in DOMAIN responseHeaders \ present :
            Cardinality({ i \in 1..Len(recommendations) : recommendations[i] = advice[h] }) = 1
       /\ summary.securityScore = <<0, 17, 33, 50, 67, 83, 100>>[total + 1]
       /\ summary.overallStatus =
            << "Very Poor", "Very Poor", "Poor", "Fair", "Good", "Excellent",
               "Excellent" >>[total + 1]

\* a site sent four of the six headers, one of the others with an empty
\* value, and the summary has been made
C26_Witness ==
  /\ returned # <<>>
  /\ returned[1].summary.totalHeaders = 4
  /\ Len(returned[1].summary.recommendations) = 2
  /\ \E h \in DOMAIN responseHeaders : responseHeaders[h] = <<>>

====
